---- MODULE Spec2Model ----
(***************************************************************************)
(* River: the binary-tree numeric attribute observer                       *)
(* (tree/_attribute_observer/numeric_attribute_class_observer_binary_tree) *)
(* and the adaptive random forest (ensemble/adaptive_random_forest).       *)
(*                                                                         *)
(* SpecObs     the observer: update and best_evaluated_split_suggestion    *)
(* SpecMember  one forest member driven by the loop of BaseForest.learn_one *)
(* SpecMaxFeatures  BaseForest: constructor, _set_max_features and reset    *)
(* SpecForest  two forests of the same configuration fed the same calls     *)
(* SpecRestart a forest that has been reset and a new one, fed the same calls *)
(* SpecAggregate  predict_proba_one and predict_one on given member answers  *)
(* SpecOrder   a forest and its twin that runs the loop in another order    *)
(* SpecDetectorInput  _drift_detector_input of the two kinds of member      *)
(***************************************************************************)
EXTENDS Integers, Sequences, FiniteSets, TLC

\* ------------------------------------------------------------------ bounds
MaxVal == 3          \* attribute values are 1..MaxVal
MaxWeight == 2       \* resample weights are 0..MaxWeight
MaxUpdates == 3      \* update calls made on the observer
MaxSteps == 4        \* examples fed to a forest member
MaxFeatures == 16    \* examples have 1..MaxFeatures features
MaxInt == 18         \* integer max_features are -MaxInt..MaxInt
MaxEighths == 16     \* float max_features are -MaxEighths/8..MaxEighths/8
MaxTape == 3         \* calls made on each forest
MaxSeed == 2         \* integer seeds are 1..MaxSeed
NModels == 2         \* n_models of the forests
MaxModels == 3       \* n_models of the ensembles whose predictions are aggregated
MaxPrelude == 1      \* examples a forest learns before it is reset
MaxRounds == 2       \* examples learned by a forest and its twin
MaxTarget == 3       \* regression targets and predictions are 0..MaxTarget
MaxInputs == 3       \* calls of _drift_detector_input

Labels == {"A", "B"}
Values == 1..MaxVal
Weights == {1, MaxWeight}     \* the weights of the observer's updates
None == "None"

VARIABLES
  root,        \* observer._root: 0 (None) or the index of the root node
  nodes,       \* arena of the Node objects, in creation order
  obs,         \* history: the non-missing (value, label, weight) updates
  n_calls,     \* history: number of update calls, missing values included
  last_op,     \* history: the last operation of the observer
  suggestion,  \* the AttributeSplitSuggestion the last operation returned,
               \* NoSuggestion when it was not a query
  calls,       \* history: the criterion calls of the last operation, in order
  member,      \* a foreground BaseForestMember
  n_samples_seen,  \* BaseForest._n_samples_seen
  next_id,     \* history: the next unused object identity
  mlog,        \* history: one entry per processed example of the member
  max_features,    \* BaseForest.max_features
  n_features,      \* the number of features of the example _init_ensemble
                   \* ran on last (of the first example before that)
  mf_config,       \* history: max_features as given to the constructor
  mf_pc,           \* "new", "configured" (constructed), "resolved" (members
                   \* created on the first example), "raised" (a call raised
                   \* AttributeError), "reset", "reresolved" (members created
                   \* again after a reset)
  forests,     \* the two forests
  rngs,        \* the random generators: 0 is numpy's global one, f is the
               \* private one of forest f
  tape,        \* history: the calls fed to the forests, in order
  outs,        \* history: per forest, what each call returned and left behind
  restarted,   \* history: forest 1 has been reset
  ensemble,    \* a forest as its predict method reads it: the members'
               \* predictions and metric values, disable_weighted_vote and
               \* aggregation_method
  prediction,  \* what the predict method returned
  agg_op,      \* "none", then the predict method that was called
  reg_var,     \* ForestMemberRegressor._var: the running statistics of the errors
  detector_input,  \* what _drift_detector_input returned last, <<>> before
  n_inputs     \* history: the calls of _drift_detector_input made

obsVars == <<root, nodes, obs, n_calls, last_op, suggestion, calls>>
memVars == <<member, n_samples_seen, next_id, mlog>>
mfVars == <<max_features, n_features, mf_config, mf_pc>>
forVars == <<forests, rngs, tape, outs, restarted>>
aggVars == <<ensemble, prediction, agg_op>>
inpVars == <<reg_var, detector_input, n_inputs>>
vars == <<root, nodes, obs, n_calls, last_op, suggestion, calls,
          member, n_samples_seen, next_id, mlog,
          max_features, n_features, mf_config, mf_pc,
          forests, rngs, tape, outs, restarted,
          ensemble, prediction, agg_op,
         reg_var, detector_input, n_inputs>>

\* Var(): the running variance of the errors, held as their count, sum and
\* sum of squares
Var == [n |-> 0, sum |-> 0, sum_sq |-> 0]

\* The idle value of ensemble
NoEnsemble ==
  [regressor |-> FALSE, models |-> <<>>, disable_weighted_vote |-> FALSE,
   aggregation_method |-> "none"]

\* ------------------------------------------------- dicts and Counters
EmptyDict == [k \in {} |-> 0]

Get(d, k) == IF k \in DOMAIN d THEN d[k] ELSE 0

\* d[k] += w on a defaultdict(float)
Inc(d, k, w) == [x \in DOMAIN d \cup {k} |-> Get(d, x) + (IF x = k THEN w ELSE 0)]

\* Counter(a) + Counter(b): only the positive results are kept
CounterAdd(a, b) ==
  [k \in {x \in DOMAIN a \cup DOMAIN b : Get(a, x) + Get(b, x) > 0}
     |-> Get(a, k) + Get(b, k)]

\* Counter(a) - Counter(b): only the positive results are kept
CounterSub(a, b) ==
  [k \in {x \in DOMAIN a \cup DOMAIN b : Get(a, x) - Get(b, x) > 0}
     |-> Get(a, k) - Get(b, k)]

\* d.update(e): the keys of e are overwritten, the other keys of d stay
DictUpdate(d, e) ==
  [k \in DOMAIN d \cup DOMAIN e |-> IF k \in DOMAIN e THEN e[k] ELSE d[k]]

\* d.update(dict(Counter(d) + Counter(e)))
UpdateAdd(d, e) == DictUpdate(d, CounterAdd(d, e))

\* d.update(dict(Counter(d) - Counter(e)))
UpdateSub(d, e) == DictUpdate(d, CounterSub(d, e))

RECURSIVE SumOver(_, _)
SumOver(d, S) ==
  IF S = {} THEN 0
  ELSE LET k == CHOOSE x \in S : TRUE IN d[k] + SumOver(d, S \ {k})

DictSum(d) == SumOver(d, DOMAIN d)

RECURSIVE MaxOver(_, _)
MaxOver(d, S) ==
  IF S = {} THEN 0
  ELSE LET k == CHOOSE x \in S : TRUE
           m == MaxOver(d, S \ {k})
       IN IF d[k] > m THEN d[k] ELSE m

DictMax(d) == MaxOver(d, DOMAIN d)

\* ------------------------------------------------------------ Node
\* A new node whose right counts hold the first observation too
Node_seeded_both_sides(val, label, sample_weight) ==
  [cut_point |-> val,
   class_count_left |-> Inc(EmptyDict, label, sample_weight),
   class_count_right |-> Inc(EmptyDict, label, sample_weight),
   left |-> 0,
   right |-> 0]

Node(val, label, sample_weight) ==
  [cut_point |-> val,
   class_count_left |-> Inc(EmptyDict, label, sample_weight),
   class_count_right |-> EmptyDict,
   left |-> 0,
   right |-> 0]

\* insert_value going on to the right of a node of equal cut_point
RECURSIVE insert_value_equal_goes_on(_, _, _, _, _)
insert_value_equal_goes_on(ns, i, val, label, sample_weight) ==
  IF val < ns[i].cut_point THEN
    LET ns1 == [ns EXCEPT ![i].class_count_left = Inc(@, label, sample_weight)] IN
    IF ns[i].left = 0
      THEN Append([ns1 EXCEPT ![i].left = Len(ns) + 1], Node(val, label, sample_weight))
      ELSE insert_value_equal_goes_on(ns1, ns[i].left, val, label, sample_weight)
  ELSE
    LET ns1 == [ns EXCEPT ![i].class_count_right = Inc(@, label, sample_weight)] IN
    IF ns[i].right = 0
      THEN Append([ns1 EXCEPT ![i].right = Len(ns) + 1], Node(val, label, sample_weight))
      ELSE insert_value_equal_goes_on(ns1, ns[i].right, val, label, sample_weight)

\* insert_value with the equal branch adding nothing
RECURSIVE insert_value_drop_equal(_, _, _, _, _)
insert_value_drop_equal(ns, i, val, label, sample_weight) ==
  IF val = ns[i].cut_point THEN ns
  ELSE IF val < ns[i].cut_point THEN
    LET ns1 == [ns EXCEPT ![i].class_count_left = Inc(@, label, sample_weight)] IN
    IF ns[i].left = 0
      THEN Append([ns1 EXCEPT ![i].left = Len(ns) + 1], Node(val, label, sample_weight))
      ELSE insert_value_drop_equal(ns1, ns[i].left, val, label, sample_weight)
  ELSE
    LET ns1 == [ns EXCEPT ![i].class_count_right = Inc(@, label, sample_weight)] IN
    IF ns[i].right = 0
      THEN Append([ns1 EXCEPT ![i].right = Len(ns) + 1], Node(val, label, sample_weight))
      ELSE insert_value_drop_equal(ns1, ns[i].right, val, label, sample_weight)

\* insert_value sending every unequal value to the right
RECURSIVE insert_value_always_right(_, _, _, _, _)
insert_value_always_right(ns, i, val, label, sample_weight) ==
  IF val = ns[i].cut_point THEN
    [ns EXCEPT ![i].class_count_left = Inc(@, label, sample_weight)]
  ELSE
    LET ns1 == [ns EXCEPT ![i].class_count_right = Inc(@, label, sample_weight)] IN
    IF ns[i].right = 0
      THEN Append([ns1 EXCEPT ![i].right = Len(ns) + 1], Node(val, label, sample_weight))
      ELSE insert_value_always_right(ns1, ns[i].right, val, label, sample_weight)

\* insert_value counting an equal value on the right of its node
RECURSIVE insert_value_equal_counts_right(_, _, _, _, _)
insert_value_equal_counts_right(ns, i, val, label, sample_weight) ==
  IF val = ns[i].cut_point THEN
    [ns EXCEPT ![i].class_count_right = Inc(@, label, sample_weight)]
  ELSE IF val < ns[i].cut_point THEN
    LET ns1 == [ns EXCEPT ![i].class_count_left = Inc(@, label, sample_weight)] IN
    IF ns[i].left = 0
      THEN Append([ns1 EXCEPT ![i].left = Len(ns) + 1], Node(val, label, sample_weight))
      ELSE insert_value_equal_counts_right(ns1, ns[i].left, val, label, sample_weight)
  ELSE
    LET ns1 == [ns EXCEPT ![i].class_count_right = Inc(@, label, sample_weight)] IN
    IF ns[i].right = 0
      THEN Append([ns1 EXCEPT ![i].right = Len(ns) + 1], Node(val, label, sample_weight))
      ELSE insert_value_equal_counts_right(ns1, ns[i].right, val, label, sample_weight)

RECURSIVE insert_value(_, _, _, _, _)
insert_value(ns, i, val, label, sample_weight) ==
  IF val = ns[i].cut_point THEN
    [ns EXCEPT ![i].class_count_left = Inc(@, label, sample_weight)]
  ELSE IF val < ns[i].cut_point THEN
    LET ns1 == [ns EXCEPT ![i].class_count_left = Inc(@, label, sample_weight)] IN
    IF ns[i].left = 0
      THEN Append([ns1 EXCEPT ![i].left = Len(ns) + 1], Node(val, label, sample_weight))
      ELSE insert_value(ns1, ns[i].left, val, label, sample_weight)
  ELSE
    LET ns1 == [ns EXCEPT ![i].class_count_right = Inc(@, label, sample_weight)] IN
    IF ns[i].right = 0
      THEN Append([ns1 EXCEPT ![i].right = Len(ns) + 1], Node(val, label, sample_weight))
      ELSE insert_value(ns1, ns[i].right, val, label, sample_weight)

\* ------------------------------------------------- the split criterion
\* merit_of_split(pre, post): a pure function of the distributions.  The
\* stand-in is the misclassification gain: the weight the majority labels of
\* the branches get right, less the weight the majority label gets right
\* before the split.
merit_of_split(pre_split_dist, post_split_dists) ==
  DictMax(post_split_dists[1]) + DictMax(post_split_dists[2]) - DictMax(pre_split_dist)

NegInf == -1000000

\* AttributeSplitSuggestion(None, [{}], -inf)
NoSuggestion ==
  [split_test |-> [att_value |-> 0, equal_passes_test |-> FALSE, none |-> TRUE],
   resulting_class_distributions |-> <<EmptyDict>>,
   merit |-> NegInf]

NumericAttributeBinaryTest(att_value, equal_passes_test) ==
  [att_value |-> att_value, equal_passes_test |-> equal_passes_test, none |-> FALSE]

\* ------------------------------------- _search_for_best_split_option
\* The distributions of a node: parent is <<>> at the root (parent_left is
\* None) and <<actual_parent_left, parent_left, parent_right>> below it.
NodeDists(nd, parent, left_child) ==
  IF parent = <<>> THEN
    <<UpdateAdd(EmptyDict, nd.class_count_left),
      UpdateAdd(EmptyDict, nd.class_count_right)>>
  ELSE
    LET left0 == UpdateAdd(EmptyDict, parent[2])
        right0 == UpdateAdd(EmptyDict, parent[3])
    IN IF left_child THEN
         LET e0 == UpdateAdd(EmptyDict, parent[1])
             e1 == UpdateSub(e0, nd.class_count_left)
             exact_parent_dist == UpdateSub(e1, nd.class_count_right)
             left1 == UpdateSub(left0, nd.class_count_right)
             right1 == UpdateAdd(right0, nd.class_count_right)
             right2 == UpdateAdd(right1, exact_parent_dist)
             left2 == UpdateSub(left1, exact_parent_dist)
         IN <<left2, right2>>
       ELSE
         <<UpdateAdd(left0, nd.class_count_left),
           UpdateSub(right0, nd.class_count_left)>>

\* The search replacing the best option on an equal merit too
RECURSIVE search_for_best_split_option_last_wins(_, _, _, _, _, _)
search_for_best_split_option_last_wins(ns, current_node, st, parent, left_child, pre_split_dist) ==
  IF current_node = 0 THEN st
  ELSE
    LET nd == ns[current_node]
        post_split_dists == NodeDists(nd, parent, left_child)
        merit == merit_of_split(pre_split_dist, post_split_dists)
        best1 == IF merit >= st.best.merit
                   THEN [split_test |-> NumericAttributeBinaryTest(nd.cut_point, TRUE),
                         resulting_class_distributions |-> post_split_dists,
                         merit |-> merit]
                   ELSE st.best
        st1 == [best |-> best1,
                calls |-> Append(st.calls, [node |-> current_node,
                                            post |-> post_split_dists,
                                            merit |-> merit])]
        down == <<nd.class_count_left, post_split_dists[1], post_split_dists[2]>>
        st2 == search_for_best_split_option_last_wins(ns, nd.left, st1, down, TRUE, pre_split_dist)
    IN search_for_best_split_option_last_wins(ns, nd.right, st2, down, FALSE, pre_split_dist)

\* st = [best, calls]: the current best option and the criterion calls so far
RECURSIVE search_for_best_split_option(_, _, _, _, _, _)
search_for_best_split_option(ns, current_node, st, parent, left_child, pre_split_dist) ==
  IF current_node = 0 THEN st
  ELSE
    LET nd == ns[current_node]
        post_split_dists == NodeDists(nd, parent, left_child)
        merit == merit_of_split(pre_split_dist, post_split_dists)
        best1 == IF merit > st.best.merit
                   THEN [split_test |-> NumericAttributeBinaryTest(nd.cut_point, TRUE),
                         resulting_class_distributions |-> post_split_dists,
                         merit |-> merit]
                   ELSE st.best
        st1 == [best |-> best1,
                calls |-> Append(st.calls, [node |-> current_node,
                                            post |-> post_split_dists,
                                            merit |-> merit])]
        down == <<nd.class_count_left, post_split_dists[1], post_split_dists[2]>>
        st2 == search_for_best_split_option(ns, nd.left, st1, down, TRUE, pre_split_dist)
    IN search_for_best_split_option(ns, nd.right, st2, down, FALSE, pre_split_dist)

\* The search started from a suggestion of merit 0
best_evaluated_split_suggestion_zero_merit(ns, rt, pre_split_dist) ==
  search_for_best_split_option(ns, rt, [best |-> [NoSuggestion EXCEPT !.merit = 0],
                                        calls |-> <<>>],
                               <<>>, FALSE, pre_split_dist)

best_evaluated_split_suggestion(ns, rt, pre_split_dist) ==
  search_for_best_split_option(ns, rt, [best |-> NoSuggestion, calls |-> <<>>],
                               <<>>, FALSE, pre_split_dist)

\* ------------------------------------------------------ raw observations
\* Per-label weight of the observations that satisfy the test P(value).
RECURSIVE ScanDist(_, _, _)
ScanDist(os, v, leq) ==
  IF os = <<>> THEN EmptyDict
  ELSE LET o == Head(os)
           d == ScanDist(Tail(os), v, leq)
       IN IF (leq /\ o.value <= v) \/ (~leq /\ o.value > v)
            THEN CounterAdd(d, Inc(EmptyDict, o.label, o.weight))
            ELSE d

\* The leaf's class distribution handed to a query as pre_split_dist.
TotalDist(os) == ScanDist(os, MaxVal + 1, TRUE)

RECURSIVE TotalWeight(_)
TotalWeight(os) == IF os = <<>> THEN 0 ELSE Head(os).weight + TotalWeight(Tail(os))

InsertedValues(os) == {os[i].value : i \in 1..Len(os)}

BruteMerit(os, v) ==
  merit_of_split(TotalDist(os), <<ScanDist(os, v, TRUE), ScanDist(os, v, FALSE)>>)

\* ------------------------------------------------------------ actions
ObsInit ==
  /\ root = 0
  /\ nodes = <<>>
  /\ obs = <<>>
  /\ n_calls = 0
  /\ last_op = "init"
  /\ suggestion = NoSuggestion
  /\ calls = <<>>
  /\ member = <<>>
  /\ n_samples_seen = 0
  /\ next_id = 0
  /\ mlog = <<>>
  /\ max_features = [kind |-> "none", val |-> 0]
  /\ n_features = 1
  /\ mf_config = [kind |-> "none", val |-> 0]
  /\ mf_pc = "configured"
  /\ forests = <<>>
  /\ rngs = <<>>
  /\ tape = <<>>
  /\ outs = <<>>
  /\ restarted = FALSE
  /\ ensemble = NoEnsemble
  /\ prediction = <<>>
  /\ agg_op = "none"
  /\ reg_var = Var
  /\ detector_input = <<>>
  /\ n_inputs = 0

\* update(att_val, class_val, sample_weight) with a value
Update(att_val, class_val, sample_weight) ==
  /\ n_calls < MaxUpdates
  /\ IF root = 0
       THEN /\ root' = 1
            /\ nodes' = <<Node(att_val, class_val, sample_weight)>>
       ELSE /\ root' = root
            /\ nodes' = insert_value(nodes, root, att_val, class_val, sample_weight)
  /\ obs' = Append(obs, [value |-> att_val, label |-> class_val, weight |-> sample_weight])
  /\ n_calls' = n_calls + 1
  /\ last_op' = "update"
  /\ suggestion' = NoSuggestion
  /\ calls' = <<>>
  /\ UNCHANGED memVars
  /\ UNCHANGED mfVars
  /\ UNCHANGED forVars
  /\ UNCHANGED aggVars
  /\ UNCHANGED inpVars

\* update(None, ...) without the early return, the missing value being
\* inserted as the value 0
UpdateMissing_inserted ==
  /\ n_calls < MaxUpdates
  /\ IF root = 0
       THEN /\ root' = 1
            /\ nodes' = <<Node(0, "A", 1)>>
       ELSE /\ root' = root
            /\ nodes' = insert_value(nodes, root, 0, "A", 1)
  /\ n_calls' = n_calls + 1
  /\ last_op' = "update_missing"
  /\ suggestion' = NoSuggestion
  /\ calls' = <<>>
  /\ UNCHANGED obs
  /\ UNCHANGED memVars
  /\ UNCHANGED mfVars
  /\ UNCHANGED forVars
  /\ UNCHANGED aggVars
  /\ UNCHANGED inpVars

\* update(None, class_val, sample_weight): the early return
UpdateMissing ==
  /\ n_calls < MaxUpdates
  /\ n_calls' = n_calls + 1
  /\ last_op' = "update_missing"
  /\ suggestion' = NoSuggestion
  /\ calls' = <<>>
  /\ UNCHANGED <<root, nodes, obs>>
  /\ UNCHANGED memVars
  /\ UNCHANGED mfVars
  /\ UNCHANGED forVars
  /\ UNCHANGED aggVars
  /\ UNCHANGED inpVars

\* The query reading the counts of every label at every node and so leaving a
\* key behind, as an indexed read of a defaultdict does
Query_reads_by_index ==
  /\ last_op # "query"
  /\ LET st == best_evaluated_split_suggestion(nodes, root, TotalDist(obs)) IN
       /\ suggestion' = st.best
       /\ calls' = st.calls
  /\ last_op' = "query"
  /\ nodes' = [i \in 1..Len(nodes) |->
                 [nodes[i] EXCEPT !.class_count_left = [l \in Labels |-> Get(@, l)],
                                  !.class_count_right = [l \in Labels |-> Get(@, l)]]]
  /\ UNCHANGED <<root, obs, n_calls>>
  /\ UNCHANGED memVars
  /\ UNCHANGED mfVars
  /\ UNCHANGED forVars
  /\ UNCHANGED aggVars
  /\ UNCHANGED inpVars

\* best_evaluated_split_suggestion(criterion, pre_split_dist, att_idx, binary_only)
Query ==
  /\ last_op # "query"
  /\ LET st == best_evaluated_split_suggestion(nodes, root, TotalDist(obs)) IN
       /\ suggestion' = st.best
       /\ calls' = st.calls
  /\ last_op' = "query"
  /\ UNCHANGED <<root, nodes, obs, n_calls>>
  /\ UNCHANGED memVars
  /\ UNCHANGED mfVars
  /\ UNCHANGED forVars
  /\ UNCHANGED aggVars
  /\ UNCHANGED inpVars

ObsNext ==
  \/ \E v \in Values, c \in Labels, w \in Weights : Update(v, c, w)
  \/ UpdateMissing
  \/ Query

SpecObs == ObsInit /\ [][ObsNext]_vars

\* ------------------------------------------ collaborators of a member
\* An absent object (None) is <<>>, a present one is <<object>>.

\* The tree (Model capability): its identity, its seed and max_features
\* parameters and the examples it has learned.
Tree(id, seed, mf) == [id |-> id, seed |-> seed, max_features |-> mf, learned |-> <<>>]

\* model.learn_one(x, y, sample_weight), xy identifying the example
TreeLearn(t, xy, sample_weight) ==
  [t EXCEPT !.learned = Append(@, [xy |-> xy, sample_weight |-> sample_weight])]

\* model.clone(): a fresh, untrained copy
TreeClone(t, id) == Tree(id, t.seed, t.max_features)

\* model.new_instance(): a clone sharing the random generator of the tree
new_instance(t, id) == TreeClone(t, id)

\* The detector (DriftDetector capability): what it answers is its own
\* business, so the answer to an update is an input of the step.
Detector(id) == [id |-> id, n_updates |-> 0, change_detected |-> FALSE, last |-> <<>>]

\* detector.update(input): last is the input it was last updated with
DetectorUpdate(d, input, signal) ==
  [d EXCEPT !.n_updates = @ + 1, !.change_detected = signal, !.last = <<input>>]

\* detector.clone(): a fresh, state-reset instance
DetectorClone(d, id) == Detector(id)

\* model.predict_one(x) of a member's step: a function of the tree and of what
\* it has learned so far, identified by these.
Prediction(t) == [tree |-> t.id, after |-> Len(t.learned)]

\* The metric (Metric capability): multiclass tells a MultiClassMetric from a
\* RegressionMetric, n_updates counts the updates it holds and last is the
\* pair it was last updated with.
Metric(multiclass) == [multiclass |-> multiclass, n_updates |-> 0, last |-> <<>>]

\* metric.update(y_true=, y_pred=)
MetricUpdate(mt, y_true, y_pred) ==
  [mt EXCEPT !.n_updates = @ + 1, !.last = <<[y_true |-> y_true, y_pred |-> y_pred]>>]

\* metric.cm.reset(), done for a MultiClassMetric only
ResetIfMultiClass(mt) ==
  IF mt.multiclass THEN [mt EXCEPT !.n_updates = 0, !.last = <<>>] ELSE mt

\* ------------------------------------------------- BaseForestMember
\* _drift_detector_input(y_true=y, y_pred=self.model.predict_one(x)) in a learn
\* call of the member: a function of the example, n, and of the prediction of
\* the member's tree at that point, identified by these.
InputOf(m, n) == [y_true |-> n, y_pred |-> Prediction(m.model)]

\* __init__; the objects it creates take the identities id0 .. id0 + 2
NewMember(index_original, model, created_on, drift_detector, warning_detector, is_background_learner, metric, id0) ==
  [index_original |-> index_original,
   model |-> TreeClone(model, id0),
   created_on |-> created_on,
   is_background_learner |-> is_background_learner,
   metric |-> ResetIfMultiClass(metric),
   original_metric |-> metric,
   background_learner |-> <<>>,
   last_drift_on |-> 0,
   last_warning_on |-> 0,
   n_drifts_detected |-> 0,
   n_warnings_detected |-> 0,
   use_drift_detector |-> drift_detector # <<>>,
   drift_detector |-> IF drift_detector # <<>>
                        THEN <<DetectorClone(drift_detector[1], id0 + 1)>> ELSE <<>>,
   use_background_learner |-> warning_detector # <<>>,
   warning_detector |-> IF warning_detector # <<>>
                          THEN <<DetectorClone(warning_detector[1], id0 + 2)>> ELSE <<>>]

\* reset that keeps the trained tree on a clone-reset
reset_keep_model(m, n, id0) ==
  LET m1 == IF m.use_background_learner /\ m.background_learner # <<>>
              THEN [m EXCEPT !.model = m.background_learner[1].model,
                             !.warning_detector = m.background_learner[1].warning_detector,
                             !.drift_detector = m.background_learner[1].drift_detector,
                             !.metric = m.background_learner[1].metric,
                             !.created_on = m.background_learner[1].created_on,
                             !.background_learner = <<>>]
              ELSE [m EXCEPT !.metric = m.original_metric,
                             !.created_on = n,
                             !.drift_detector = <<DetectorClone(m.drift_detector[1], id0 + 1)>>]
  IN [m1 EXCEPT !.metric = ResetIfMultiClass(@)]

\* reset that promotes the background learner without discarding it
reset_keep_background(m, n, id0) ==
  LET m1 == IF m.use_background_learner /\ m.background_learner # <<>>
              THEN [m EXCEPT !.model = m.background_learner[1].model,
                             !.warning_detector = m.background_learner[1].warning_detector,
                             !.drift_detector = m.background_learner[1].drift_detector,
                             !.metric = m.background_learner[1].metric,
                             !.created_on = m.background_learner[1].created_on]
              ELSE [m EXCEPT !.model = TreeClone(m.model, id0),
                             !.metric = m.original_metric,
                             !.created_on = n,
                             !.drift_detector = <<DetectorClone(m.drift_detector[1], id0 + 1)>>]
  IN [m1 EXCEPT !.metric = ResetIfMultiClass(@)]

\* reset that promotes the background learner but keeps the member's created_on
reset_promote_keeps_created_on(m, n, id0) ==
  LET m1 == IF m.use_background_learner /\ m.background_learner # <<>>
              THEN [m EXCEPT !.model = m.background_learner[1].model,
                             !.warning_detector = m.background_learner[1].warning_detector,
                             !.drift_detector = m.background_learner[1].drift_detector,
                             !.metric = m.background_learner[1].metric,
                             !.background_learner = <<>>]
              ELSE [m EXCEPT !.model = TreeClone(m.model, id0),
                             !.metric = m.original_metric,
                             !.created_on = n,
                             !.drift_detector = <<DetectorClone(m.drift_detector[1], id0 + 1)>>]
  IN [m1 EXCEPT !.metric = ResetIfMultiClass(@)]

\* reset that keeps the member's metric on a clone-reset
reset_clone_keeps_metric(m, n, id0) ==
  LET m1 == IF m.use_background_learner /\ m.background_learner # <<>>
              THEN [m EXCEPT !.model = m.background_learner[1].model,
                             !.warning_detector = m.background_learner[1].warning_detector,
                             !.drift_detector = m.background_learner[1].drift_detector,
                             !.metric = m.background_learner[1].metric,
                             !.created_on = m.background_learner[1].created_on,
                             !.background_learner = <<>>]
              ELSE [m EXCEPT !.model = TreeClone(m.model, id0),
                             !.created_on = n,
                             !.drift_detector = <<DetectorClone(m.drift_detector[1], id0 + 1)>>]
  IN [m1 EXCEPT !.metric = ResetIfMultiClass(@)]

\* reset(n_samples_seen); the objects it creates take id0 and id0 + 1
reset(m, n, id0) ==
  LET m1 == IF m.use_background_learner /\ m.background_learner # <<>>
              THEN [m EXCEPT !.model = m.background_learner[1].model,
                             !.warning_detector = m.background_learner[1].warning_detector,
                             !.drift_detector = m.background_learner[1].drift_detector,
                             !.metric = m.background_learner[1].metric,
                             !.created_on = m.background_learner[1].created_on,
                             !.background_learner = <<>>]
              ELSE [m EXCEPT !.model = TreeClone(m.model, id0),
                             !.metric = m.original_metric,
                             !.created_on = n,
                             !.drift_detector = <<DetectorClone(m.drift_detector[1], id0 + 1)>>]
  IN [m1 EXCEPT !.metric = ResetIfMultiClass(@)]

\* The warning check creating the background learner as a foreground member
WarningStep_foreground_flag(m, n, wsig, id0) ==
  IF m.use_background_learner THEN
    LET wd == DetectorUpdate(m.warning_detector[1], InputOf(m, n), wsig)
        m1 == [m EXCEPT !.warning_detector = <<wd>>]
    IN IF wd.change_detected
         THEN [m1 EXCEPT
                 !.last_warning_on = n,
                 !.n_warnings_detected = @ + 1,
                 !.background_learner =
                    <<NewMember(m1.index_original, new_instance(m1.model, id0), n,
                                m1.drift_detector, m1.warning_detector, FALSE,
                                m1.metric, id0 + 1)>>,
                 !.warning_detector = <<DetectorClone(wd, id0 + 4)>>]
         ELSE m1
  ELSE m

\* The warning check creating the background learner with the member's
\* created_on
WarningStep_keeps_created_on(m, n, wsig, id0) ==
  IF m.use_background_learner THEN
    LET wd == DetectorUpdate(m.warning_detector[1], InputOf(m, n), wsig)
        m1 == [m EXCEPT !.warning_detector = <<wd>>]
    IN IF wd.change_detected
         THEN [m1 EXCEPT
                 !.last_warning_on = n,
                 !.n_warnings_detected = @ + 1,
                 !.background_learner =
                    <<NewMember(m1.index_original, new_instance(m1.model, id0),
                                m1.created_on,
                                m1.drift_detector, m1.warning_detector, TRUE,
                                m1.metric, id0 + 1)>>,
                 !.warning_detector = <<DetectorClone(wd, id0 + 4)>>]
         ELSE m1
  ELSE m

\* The warning check keeping a background learner that is already present
WarningStep_keeps_background(m, n, wsig, id0) ==
  IF m.use_background_learner THEN
    LET wd == DetectorUpdate(m.warning_detector[1], InputOf(m, n), wsig)
        m1 == [m EXCEPT !.warning_detector = <<wd>>]
    IN IF wd.change_detected
         THEN [m1 EXCEPT
                 !.last_warning_on = n,
                 !.n_warnings_detected = @ + 1,
                 !.background_learner =
                    IF @ # <<>> THEN @
                    ELSE <<NewMember(m1.index_original, new_instance(m1.model, id0), n,
                                     m1.drift_detector, m1.warning_detector, TRUE,
                                     m1.metric, id0 + 1)>>,
                 !.warning_detector = <<DetectorClone(wd, id0 + 4)>>]
         ELSE m1
  ELSE m

\* The warning check of learn_one (lines 989-1006)
WarningStep(m, n, wsig, id0) ==
  IF m.use_background_learner THEN
    LET wd == DetectorUpdate(m.warning_detector[1], InputOf(m, n), wsig)
        m1 == [m EXCEPT !.warning_detector = <<wd>>]
    IN IF wd.change_detected
         THEN [m1 EXCEPT
                 !.last_warning_on = n,
                 !.n_warnings_detected = @ + 1,
                 !.background_learner =
                    <<NewMember(m1.index_original, new_instance(m1.model, id0), n,
                                m1.drift_detector, m1.warning_detector, TRUE,
                                m1.metric, id0 + 1)>>,
                 !.warning_detector = <<DetectorClone(wd, id0 + 4)>>]
         ELSE m1
  ELSE m

\* The drift check keeping the drift detector's count on a signal
DriftStep_no_count(m, n, dsig, id0) ==
  LET dd == DetectorUpdate(m.drift_detector[1], InputOf(m, n), dsig)
      m1 == [m EXCEPT !.drift_detector = <<dd>>]
  IN IF dd.change_detected
       THEN reset([m1 EXCEPT !.last_drift_on = n], n, id0 + 5)
       ELSE m1

\* The drift check of learn_one (lines 1008-1015)
DriftStep(m, n, dsig, id0) ==
  LET dd == DetectorUpdate(m.drift_detector[1], InputOf(m, n), dsig)
      m1 == [m EXCEPT !.drift_detector = <<dd>>]
  IN IF dd.change_detected
       THEN reset([m1 EXCEPT !.last_drift_on = n, !.n_drifts_detected = @ + 1],
                  n, id0 + 5)
       ELSE m1

\* learn_one running the warning check without a drift detector
learn_one_warning_ungated(m, xy, sample_weight, n, wsig, dsig, id0) ==
  LET m1 == [m EXCEPT !.model = TreeLearn(@, xy, sample_weight)]
      m2 == IF m1.background_learner # <<>>
              THEN [m1 EXCEPT !.background_learner[1].model =
                                 TreeLearn(@, xy, sample_weight)]
              ELSE m1
  IN IF m2.is_background_learner THEN m2
     ELSE IF m2.use_drift_detector
       THEN DriftStep(WarningStep(m2, n, wsig, id0), n, dsig, id0)
       ELSE WarningStep(m2, n, wsig, id0)

\* learn_one updating the drift detector before the warning detector
learn_one_drift_first(m, xy, sample_weight, n, wsig, dsig, id0) ==
  LET m1 == [m EXCEPT !.model = TreeLearn(@, xy, sample_weight)]
      m2 == IF m1.background_learner # <<>>
              THEN [m1 EXCEPT !.background_learner[1].model =
                                 TreeLearn(@, xy, sample_weight)]
              ELSE m1
  IN IF m2.use_drift_detector /\ ~m2.is_background_learner
       THEN WarningStep(DriftStep(m2, n, dsig, id0), n, wsig, id0)
       ELSE m2

\* learn_one training the background learner after the warning check
learn_one_background_learns_late(m, xy, sample_weight, n, wsig, dsig, id0) ==
  LET m1 == [m EXCEPT !.model = TreeLearn(@, xy, sample_weight)]
      bg_learn(mm) == IF mm.background_learner # <<>>
                        THEN [mm EXCEPT !.background_learner[1].model =
                                           TreeLearn(@, xy, sample_weight)]
                        ELSE mm
  IN IF m1.use_drift_detector /\ ~m1.is_background_learner
       THEN DriftStep(bg_learn(WarningStep(m1, n, wsig, id0)), n, dsig, id0)
       ELSE bg_learn(m1)

\* learn_one(x, y, sample_weight=, n_samples_seen=); wsig and dsig are what the
\* warning and the drift detector answer if they are updated in this call
learn_one(m, xy, sample_weight, n, wsig, dsig, id0) ==
  LET m1 == [m EXCEPT !.model = TreeLearn(@, xy, sample_weight)]
      m2 == IF m1.background_learner # <<>>
              THEN [m1 EXCEPT !.background_learner[1].model =
                                 TreeLearn(@, xy, sample_weight)]
              ELSE m1
  IN IF m2.use_drift_detector /\ ~m2.is_background_learner
       THEN DriftStep(WarningStep(m2, n, wsig, id0), n, dsig, id0)
       ELSE m2

IdsPerCall == 7

\* --------------------------------------------------- member actions
\* _init_ensemble for one member: the forest's detectors and metric are the
\* templates handed to the constructor.
MemInit ==
  /\ \E use_drift \in BOOLEAN, use_warning \in BOOLEAN, multiclass \in BOOLEAN :
       member = NewMember(0, Tree(0, 0, 1), 1,
                          IF use_drift THEN <<Detector(1)>> ELSE <<>>,
                          IF use_warning THEN <<Detector(2)>> ELSE <<>>,
                          FALSE, Metric(multiclass), 3)
  /\ n_samples_seen = 0
  /\ next_id = 6
  /\ mlog = <<>>
  /\ max_features = [kind |-> "none", val |-> 0]
  /\ n_features = 1
  /\ mf_config = [kind |-> "none", val |-> 0]
  /\ mf_pc = "configured"
  /\ forests = <<>>
  /\ rngs = <<>>
  /\ tape = <<>>
  /\ outs = <<>>
  /\ restarted = FALSE
  /\ ensemble = NoEnsemble
  /\ prediction = <<>>
  /\ agg_op = "none"
  /\ root = 0
  /\ nodes = <<>>
  /\ obs = <<>>
  /\ n_calls = 0
  /\ last_op = "init"
  /\ suggestion = NoSuggestion
  /\ calls = <<>>
  /\ reg_var = Var
  /\ detector_input = <<>>
  /\ n_inputs = 0

\* The loop body handing the example to the member whatever the weight drawn
MemberStep_learns_on_zero(k, wsig, dsig) ==
  /\ n_samples_seen < MaxSteps
  /\ wsig => (k > 0 /\ member.warning_detector # <<>>)
  /\ dsig => (k > 0 /\ member.drift_detector # <<>>)
  /\ n_samples_seen' = n_samples_seen + 1
  /\ LET y_pred == Prediction(member.model)
         m1 == [member EXCEPT !.metric = MetricUpdate(@, n_samples_seen', y_pred)] IN
       member' = IF k >= 0
                   THEN learn_one(m1, n_samples_seen', k, n_samples_seen',
                                  wsig, dsig, next_id)
                   ELSE m1
  /\ next_id' = next_id + IdsPerCall
  /\ mlog' = Append(mlog, [n |-> n_samples_seen', k |-> k,
                           warning |-> wsig, drift |-> dsig,
                           model_before |-> member.model.id,
                           model_after |-> member'.model.id,
                           id0 |-> next_id,
                           bg_model_before |->
                              IF member.background_learner # <<>>
                                THEN member.background_learner[1].model.id ELSE -1,
                           bg_after |-> member'.background_learner # <<>>])
  /\ UNCHANGED obsVars
  /\ UNCHANGED mfVars
  /\ UNCHANGED forVars
  /\ UNCHANGED aggVars
  /\ UNCHANGED inpVars

\* The loop body taking the prediction from the tree that has learned the example
MemberStep_predicts_after_learning(k, wsig, dsig) ==
  /\ n_samples_seen < MaxSteps
  /\ wsig => (k > 0 /\ member.warning_detector # <<>>)
  /\ dsig => (k > 0 /\ member.drift_detector # <<>>)
  /\ n_samples_seen' = n_samples_seen + 1
  /\ LET y_pred == Prediction(IF k > 0 THEN TreeLearn(member.model, n_samples_seen', k)
                                      ELSE member.model)
         m1 == [member EXCEPT !.metric = MetricUpdate(@, n_samples_seen', y_pred)] IN
       member' = IF k > 0
                   THEN learn_one(m1, n_samples_seen', k, n_samples_seen',
                                  wsig, dsig, next_id)
                   ELSE m1
  /\ next_id' = next_id + IdsPerCall
  /\ mlog' = Append(mlog, [n |-> n_samples_seen', k |-> k,
                           warning |-> wsig, drift |-> dsig,
                           model_before |-> member.model.id,
                           model_after |-> member'.model.id,
                           id0 |-> next_id,
                           bg_model_before |->
                              IF member.background_learner # <<>>
                                THEN member.background_learner[1].model.id ELSE -1,
                           bg_after |-> member'.background_learner # <<>>])
  /\ UNCHANGED obsVars
  /\ UNCHANGED mfVars
  /\ UNCHANGED forVars
  /\ UNCHANGED aggVars
  /\ UNCHANGED inpVars

\* The body of the loop of BaseForest.learn_one for the member: the metric is
\* updated, the resample weight k is drawn, and the member learns if k > 0.
\* wsig and dsig are the answers the member's detectors give to an update in
\* this call.
MemberStep(k, wsig, dsig) ==
  /\ n_samples_seen < MaxSteps
  /\ wsig => (k > 0 /\ member.warning_detector # <<>>)
  /\ dsig => (k > 0 /\ member.drift_detector # <<>>)
  /\ n_samples_seen' = n_samples_seen + 1
  /\ LET y_pred == Prediction(member.model)
         m1 == [member EXCEPT !.metric = MetricUpdate(@, n_samples_seen', y_pred)] IN
       member' = IF k > 0
                   THEN learn_one(m1, n_samples_seen', k, n_samples_seen',
                                  wsig, dsig, next_id)
                   ELSE m1
  /\ next_id' = next_id + IdsPerCall
  /\ mlog' = Append(mlog, [n |-> n_samples_seen', k |-> k,
                           warning |-> wsig, drift |-> dsig,
                           model_before |-> member.model.id,
                           model_after |-> member'.model.id,
                           id0 |-> next_id,
                           bg_model_before |->
                              IF member.background_learner # <<>>
                                THEN member.background_learner[1].model.id ELSE -1,
                           bg_after |-> member'.background_learner # <<>>])
  /\ UNCHANGED obsVars
  /\ UNCHANGED mfVars
  /\ UNCHANGED forVars
  /\ UNCHANGED aggVars
  /\ UNCHANGED inpVars

MemNext == \E k \in 0..MaxWeight, wsig \in BOOLEAN, dsig \in BOOLEAN : MemberStep(k, wsig, dsig)

SpecMember == MemInit /\ [][MemNext]_vars

\* --------------------------------------------- BaseForest.max_features
\* A max_features value is [kind, val]: kind "sqrt", "log2" or "str" (any
\* other string); "int" with the integer; "float" with val the number of
\* eighths (val / 8 is exact in binary floating point, as is its product with
\* a small n_features); "none"; "other" for a value of any other type.
MaxFeaturesValues ==
  {[kind |-> k, val |-> 0] : k \in {"sqrt", "log2", "str"}}
    \cup {[kind |-> "int", val |-> v] : v \in (-MaxInt)..MaxInt}
    \cup {[kind |-> "float", val |-> v] : v \in (-MaxEighths)..MaxEighths}
    \cup {[kind |-> "none", val |-> 0], [kind |-> "other", val |-> 0]}

IntValue(v) == [kind |-> "int", val |-> v]

\* round(math.sqrt(n)): sqrt(n) is never halfway between two integers
RoundSqrt(n) == CHOOSE r \in 0..n : (2 * r - 1) * (2 * r - 1) < 4 * n /\ 4 * n < (2 * r + 1) * (2 * r + 1)

\* round(math.log2(n)): r - 1/2 < log2(n) < r + 1/2, that is 4^r < 2 n^2 < 4^(r+1)
RoundLog2(n) == CHOOSE r \in 0..n : 4 ^ r < 2 * n * n /\ 2 * n * n < 4 ^ (r + 1)

\* int(x) of the float x = num / 8: truncation towards zero
IntOfEighths(num) == IF num >= 0 THEN num \div 8 ELSE -((-num) \div 8)

\* The sanity checks of _set_max_features (lines 121-132)
SanityChecks(v, n) ==
  LET v1 == IF v < 0 THEN v + n ELSE v
      v2 == IF v1 <= 0 THEN 1 ELSE v1
  IN IF v2 > n THEN n ELSE v2

\* The sanity checks without the upper clamp
set_max_features_no_upper_clamp(mf, n) ==
  LET lower(v) == LET v1 == IF v < 0 THEN v + n ELSE v
                  IN IF v1 <= 0 THEN 1 ELSE v1
  IN IF mf.kind = "sqrt" THEN IntValue(lower(RoundSqrt(n)))
     ELSE IF mf.kind = "log2" THEN IntValue(lower(RoundLog2(n)))
     ELSE IF mf.kind = "int" THEN IntValue(lower(mf.val))
     ELSE IF mf.kind = "float" THEN IntValue(lower(IntOfEighths(mf.val * n)))
     ELSE IF mf.kind = "none" THEN IntValue(lower(n))
     ELSE [kind |-> "raise", val |-> 0]

\* _set_max_features(n_features): the new self.max_features, or kind "raise"
\* for the AttributeError
set_max_features(mf, n) ==
  IF mf.kind = "sqrt" THEN IntValue(SanityChecks(RoundSqrt(n), n))
  ELSE IF mf.kind = "log2" THEN IntValue(SanityChecks(RoundLog2(n), n))
  ELSE IF mf.kind = "int" THEN IntValue(SanityChecks(mf.val, n))
  ELSE IF mf.kind = "float" THEN IntValue(SanityChecks(IntOfEighths(mf.val * n), n))
  ELSE IF mf.kind = "none" THEN IntValue(SanityChecks(n, n))
  ELSE [kind |-> "raise", val |-> 0]

\* Before the constructor runs: its max_features argument is mf_config and the
\* first example will have n_features features.
MFInit ==
  /\ mf_config \in MaxFeaturesValues
  /\ max_features = [kind |-> "none", val |-> 0]
  /\ n_features \in 1..MaxFeatures
  /\ mf_pc = "new"
  /\ forests = <<>>
  /\ rngs = <<>>
  /\ tape = <<>>
  /\ outs = <<>>
  /\ restarted = FALSE
  /\ ensemble = NoEnsemble
  /\ prediction = <<>>
  /\ agg_op = "none"
  /\ root = 0
  /\ nodes = <<>>
  /\ obs = <<>>
  /\ n_calls = 0
  /\ last_op = "init"
  /\ suggestion = NoSuggestion
  /\ calls = <<>>
  /\ member = <<>>
  /\ n_samples_seen = 0
  /\ next_id = 0
  /\ mlog = <<>>
  /\ reg_var = Var
  /\ detector_input = <<>>
  /\ n_inputs = 0

\* BaseForest.__init__ (lines 32-57): the argument is stored as it is, whatever
\* its type; nothing is raised.
Construct ==
  /\ mf_pc = "new"
  /\ max_features' = mf_config
  /\ mf_pc' = "configured"
  /\ UNCHANGED <<n_features, mf_config>>
  /\ UNCHANGED obsVars
  /\ UNCHANGED memVars
  /\ UNCHANGED forVars
  /\ UNCHANGED aggVars
  /\ UNCHANGED inpVars

\* The first call on the forest, learn_one (learn) or a predict, the example
\* having n_features features: models is empty, so _init_ensemble calls
\* _set_max_features; learn_one has incremented _n_samples_seen before.
Resolve ==
  /\ mf_pc = "configured"
  /\ \E learn \in BOOLEAN :
       n_samples_seen' = IF learn THEN n_samples_seen + 1 ELSE n_samples_seen
  /\ LET r == set_max_features(max_features, n_features) IN
       IF r.kind = "raise"
         THEN /\ mf_pc' = "raised"
              /\ UNCHANGED max_features
         ELSE /\ mf_pc' = "resolved"
              /\ max_features' = r
  /\ UNCHANGED <<n_features, mf_config>>
  /\ UNCHANGED obsVars
  /\ UNCHANGED <<member, next_id, mlog>>
  /\ UNCHANGED forVars
  /\ UNCHANGED aggVars
  /\ UNCHANGED inpVars

\* A later learn_one on a forest that has its members: _init_ensemble is not
\* called, whatever the number of features of the example.
LaterLearn ==
  /\ mf_pc \in {"resolved", "reresolved"}
  /\ n_samples_seen < MaxSteps
  /\ n_samples_seen' = n_samples_seen + 1
  /\ UNCHANGED mfVars
  /\ UNCHANGED obsVars
  /\ UNCHANGED <<member, next_id, mlog>>
  /\ UNCHANGED forVars
  /\ UNCHANGED aggVars
  /\ UNCHANGED inpVars

\* BaseForest.reset() (lines 134-138): models and the counter are cleared;
\* max_features keeps the value _set_max_features gave it.
ForestReset ==
  /\ mf_pc \in {"resolved", "reresolved"}
  /\ mf_pc' = "reset"
  /\ n_samples_seen' = 0
  /\ UNCHANGED <<max_features, n_features, mf_config>>
  /\ UNCHANGED obsVars
  /\ UNCHANGED <<member, next_id, mlog>>
  /\ UNCHANGED forVars
  /\ UNCHANGED aggVars
  /\ UNCHANGED inpVars

\* The first call after reset(), on an example of n features: models is empty
\* again, so _init_ensemble runs _set_max_features on the current value.
ReResolve(n, learn) ==
  /\ mf_pc = "reset"
  /\ n_samples_seen' = IF learn THEN n_samples_seen + 1 ELSE n_samples_seen
  /\ max_features' = set_max_features(max_features, n)
  /\ n_features' = n
  /\ mf_pc' = "reresolved"
  /\ UNCHANGED mf_config
  /\ UNCHANGED obsVars
  /\ UNCHANGED <<member, next_id, mlog>>
  /\ UNCHANGED forVars
  /\ UNCHANGED aggVars
  /\ UNCHANGED inpVars

MFNext ==
  \/ Construct
  \/ Resolve
  \/ LaterLearn
  \/ ForestReset
  \/ \E n \in 1..MaxFeatures, learn \in BOOLEAN : ReResolve(n, learn)

SpecMaxFeatures == MFInit /\ [][MFNext]_vars

\* ----------------------------------------------------------- BaseForest
\* A generator state is a number; the stream it produces is that of a small
\* linear congruential generator.
RngNext(st) == (3 * st + 1) % 7

\* RandomState(seed)
RandomState(seed) == seed % 7

\* rng.poisson(lam): the draw and the state it leaves
poisson(st) == [k |-> RngNext(st) % (MaxWeight + 1), state |-> RngNext(st)]

\* rng.randint(0, 4294967295, size=n): the draws and the state it leaves
RECURSIVE randint(_, _)
randint(st, n) ==
  IF n = 0 THEN [values |-> <<>>, state |-> st]
  ELSE LET r == randint(RngNext(st), n - 1)
       IN [values |-> <<RngNext(st)>> \o r.values, state |-> r.state]

\* check_random_state(seed): the generator an integer seed creates is private
\* to the forest (own); without a seed it is numpy's global generator 0.
check_random_state(seed_is_int, own) == IF seed_is_int THEN own ELSE 0

\* BaseForest.__init__ ignoring its seed
BaseForest_unseeded(own, seed_is_int, seed, mf, drift_detector, warning_detector, metric) ==
  [n_models |-> NModels,
   max_features |-> mf,
   metric |-> metric,
   disable_weighted_vote |-> TRUE,
   drift_detector |-> drift_detector,
   warning_detector |-> warning_detector,
   seed_is_int |-> seed_is_int,
   seed |-> seed,
   rng |-> check_random_state(FALSE, own),
   models |-> <<>>,
   n_samples_seen |-> 0,
   next_id |-> 3]

\* BaseForest.__init__
BaseForest(own, seed_is_int, seed, mf, drift_detector, warning_detector, metric) ==
  [n_models |-> NModels,
   max_features |-> mf,
   metric |-> metric,
   disable_weighted_vote |-> TRUE,
   drift_detector |-> drift_detector,
   warning_detector |-> warning_detector,
   seed_is_int |-> seed_is_int,
   seed |-> seed,
   rng |-> check_random_state(seed_is_int, own),
   models |-> <<>>,
   n_samples_seen |-> 0,
   next_id |-> 3]

\* What a tree trained on labelled examples predicts: the label of greatest
\* learned weight, the first label on a tie, "None" when untrained.
RECURSIVE LearnedWeight(_, _)
LearnedWeight(learned, y) ==
  IF learned = <<>> THEN 0
  ELSE (IF Head(learned).xy.y = y THEN Head(learned).sample_weight ELSE 0)
         + LearnedWeight(Tail(learned), y)

TreePredict(t) ==
  IF t.learned = <<>> THEN "None"
  ELSE IF LearnedWeight(t.learned, "A") >= LearnedWeight(t.learned, "B") THEN "A" ELSE "B"

\* _drift_detector_input of ForestMemberClassifier
drift_detector_input(y_true, y_pred) == IF y_true = y_pred THEN 0 ELSE 1

\* What the detectors of the forests answer to an update: the warning detector
\* signals on an error, the drift detector on an error that is at least its
\* second update.
WarningAnswer(d, input) == input = 1

DriftAnswer(d, input) == input = 1 /\ d.n_updates + 1 >= 2

\* _new_base_model(seed): the tree is given the forest's max_features
new_base_model(f, seed) == Tree(0, seed, f.max_features.val)

\* _init_ensemble(features) from generator state st; raised when
\* _set_max_features raises, the forest and the generator being left as they
\* were
init_ensemble(f, st, n_feat) ==
  LET mf == set_max_features(f.max_features, n_feat)
      f1 == [f EXCEPT !.max_features = mf]
      seeds == randint(st, f.n_models)
  IN IF mf.kind = "raise"
       THEN [forest |-> f, state |-> st, raised |-> TRUE]
       ELSE [forest |->
               [f1 EXCEPT
                  !.models = [i \in 1..f.n_models |->
                                NewMember(i - 1, new_base_model(f1, seeds.values[i]),
                                          f.n_samples_seen,
                                          f.drift_detector, f.warning_detector, FALSE,
                                          f.metric, f.next_id + 3 * (i - 1))],
                  !.next_id = @ + 3 * f.n_models],
             state |-> seeds.state,
             raised |-> FALSE]

\* The loop body reading the prediction of the first member for every member
LoopBody_reads_first_member(models, i, k, y, n, id0) ==
  LET y_pred == TreePredict(models[1].model)
      m1 == [models[i] EXCEPT !.metric = MetricUpdate(@, y, y_pred)]
      xy == [n |-> n, y |-> y]
      input == drift_detector_input(y, TreePredict(TreeLearn(m1.model, xy, k)))
      wsig == m1.warning_detector # <<>> /\ WarningAnswer(m1.warning_detector[1], input)
      dsig == m1.drift_detector # <<>> /\ DriftAnswer(m1.drift_detector[1], input)
      m2 == IF k > 0
              THEN learn_one(m1, xy, k, n, wsig, dsig, id0 + IdsPerCall * (i - 1))
              ELSE m1
  IN [models EXCEPT ![i] = m2]

\* The body of the loop of learn_one for member i, k being the weight drawn
\* for it: the prediction, the metric update and, if k > 0, the member's
\* learn_one
LoopBody(models, i, k, y, n, id0) ==
  LET y_pred == TreePredict(models[i].model)
      m1 == [models[i] EXCEPT !.metric = MetricUpdate(@, y, y_pred)]
      xy == [n |-> n, y |-> y]
      input == drift_detector_input(y, TreePredict(TreeLearn(m1.model, xy, k)))
      wsig == m1.warning_detector # <<>> /\ WarningAnswer(m1.warning_detector[1], input)
      dsig == m1.drift_detector # <<>> /\ DriftAnswer(m1.drift_detector[1], input)
      m2 == IF k > 0
              THEN learn_one(m1, xy, k, n, wsig, dsig, id0 + IdsPerCall * (i - 1))
              ELSE m1
  IN [models EXCEPT ![i] = m2]

\* The loop of learn_one over the members, from member i on
RECURSIVE LearnLoop(_, _, _, _, _, _)
LearnLoop(models, i, st, y, n, id0) ==
  IF i > Len(models) THEN [models |-> models, state |-> st]
  ELSE
    LET draw == poisson(st)
    IN LearnLoop(LoopBody(models, i, draw.k, y, n, id0), i + 1, draw.state, y, n, id0)

\* BaseForest.learn_one(x, y) from generator state st
forest_learn_one(f, st, y, n_feat) ==
  LET f1 == [f EXCEPT !.n_samples_seen = @ + 1]
      ini == IF f1.models = <<>> THEN init_ensemble(f1, st, n_feat)
                                 ELSE [forest |-> f1, state |-> st, raised |-> FALSE]
      loop == LearnLoop(ini.forest.models, 1, ini.state, y,
                        ini.forest.n_samples_seen, ini.forest.next_id)
  IN IF ini.raised
       THEN [forest |-> ini.forest, state |-> ini.state, result |-> "self", raised |-> TRUE]
       ELSE [forest |-> [ini.forest EXCEPT !.models = loop.models,
                                           !.next_id = @ + IdsPerCall * Len(loop.models)],
             state |-> loop.state,
             result |-> "self",
             raised |-> FALSE]

\* ------------------------------------------- _drift_detector_input
\* Var.update(x)
VarUpdate(v, x) == [n |-> v.n + 1, sum |-> v.sum + x, sum_sq |-> v.sum_sq + x * x]

\* Var.sigma, the sample variance, as the exact quotient <<num, den>>; 0 up to
\* the first observation
VarSigma(v) ==
  IF v.n > 1 THEN <<v.n * v.sum_sq - v.sum * v.sum, v.n * (v.n - 1)>> ELSE <<0, 1>>

\* A scalar handed to the detectors: c + error / (6 * sqrt(sigma)), c and
\* sigma being quotients <<num, den>>
Scalar(num, den) == [c |-> <<num, den>>, error |-> 0, sigma |-> <<1, 1>>]

\* _drift_detector_input of ForestMemberRegressor: the statistics it leaves
\* and the value it returns, (drift_input + 3 * sd) / (6 * sd) being
\* 1/2 + drift_input / (6 * sd)
regressor_drift_detector_input(v, y_true, y_pred) ==
  LET drift_input == y_true - y_pred
      v1 == VarUpdate(v, drift_input)
      sigma == VarSigma(v1)
  IN [var |-> v1,
      value |-> IF v1.n = 1 THEN Scalar(1, 2)
                ELSE IF sigma[1] > 0
                  THEN [c |-> <<1, 2>>, error |-> drift_input, sigma |-> sigma]
                  ELSE Scalar(1, 2)]

InpInit ==
  /\ reg_var = Var
  /\ detector_input = <<>>
  /\ n_inputs = 0
  /\ ensemble = NoEnsemble
  /\ prediction = <<>>
  /\ agg_op = "none"
  /\ forests = <<>>
  /\ rngs = <<>>
  /\ tape = <<>>
  /\ outs = <<>>
  /\ restarted = FALSE
  /\ root = 0
  /\ nodes = <<>>
  /\ obs = <<>>
  /\ n_calls = 0
  /\ last_op = "init"
  /\ suggestion = NoSuggestion
  /\ calls = <<>>
  /\ member = <<>>
  /\ n_samples_seen = 0
  /\ next_id = 0
  /\ mlog = <<>>
  /\ max_features = [kind |-> "none", val |-> 0]
  /\ n_features = 1
  /\ mf_config = [kind |-> "none", val |-> 0]
  /\ mf_pc = "configured"

\* A regression member computes the input of its detectors in a learn call
RegressorInput(y_true, y_pred) ==
  /\ n_inputs < MaxInputs
  /\ LET r == regressor_drift_detector_input(reg_var, y_true, y_pred) IN
       /\ reg_var' = r.var
       /\ detector_input' = <<r.value>>
  /\ n_inputs' = n_inputs + 1
  /\ UNCHANGED obsVars
  /\ UNCHANGED memVars
  /\ UNCHANGED mfVars
  /\ UNCHANGED forVars
  /\ UNCHANGED aggVars

\* ForestMemberRegressor.reset: the statistics start anew
RegressorReset ==
  /\ reg_var # Var
  /\ reg_var' = Var
  /\ UNCHANGED <<detector_input, n_inputs>>
  /\ UNCHANGED obsVars
  /\ UNCHANGED memVars
  /\ UNCHANGED mfVars
  /\ UNCHANGED forVars
  /\ UNCHANGED aggVars

\* A classification member computes the input of its detectors
ClassifierInput(y_true, y_pred) ==
  /\ n_inputs < MaxInputs
  /\ detector_input' = <<Scalar(drift_detector_input(y_true, y_pred), 1)>>
  /\ n_inputs' = n_inputs + 1
  /\ UNCHANGED reg_var
  /\ UNCHANGED obsVars
  /\ UNCHANGED memVars
  /\ UNCHANGED mfVars
  /\ UNCHANGED forVars
  /\ UNCHANGED aggVars

InpNext ==
  \/ \E y_true \in 0..MaxTarget, y_pred \in 0..MaxTarget : RegressorInput(y_true, y_pred)
  \/ RegressorReset
  \/ \E y_true \in Labels, y_pred \in Labels \cup {None} : ClassifierInput(y_true, y_pred)

SpecDetectorInput == InpInit /\ [][InpNext]_vars

\* ------------------------------------------------------ aggregation
\* A probability and the value of a classification metric are numbers of
\* tenths, the product of two a number of hundredths.  A returned number is the
\* exact quotient <<numerator, denominator>>; floating point rounding is not
\* modelled.

\* dict.update(d) in the place of Counter.update(d): the counts of d replace
\* those held
CounterUpdate_overwrite(c, e) == [k \in DOMAIN c \cup DOMAIN e |-> IF k \in DOMAIN e THEN e[k] ELSE c[k]]

\* Counter.update(d): the counts of d are added
CounterUpdate(c, e) == [k \in DOMAIN c \cup DOMAIN e |-> Get(c, k) + Get(e, k)]

\* The loop of predict_proba_one over the members (lines 569-574), from member
\* i on, summed holding the sums so far in hundredths; an unscaled vector of
\* tenths is ten times as many hundredths
RECURSIVE vote_loop_scale_always(_, _, _, _)
vote_loop_scale_always(models, i, summed, disable_weighted_vote) ==
  IF i > Len(models) THEN summed
  ELSE
    LET y_proba_temp == models[i].proba
        metric_value == models[i].metric
        scaled == IF ~disable_weighted_vote
                    THEN [k \in DOMAIN y_proba_temp |-> y_proba_temp[k] * metric_value]
                    ELSE [k \in DOMAIN y_proba_temp |-> y_proba_temp[k] * 10]
    IN vote_loop_scale_always(models, i + 1, CounterUpdate(summed, scaled), disable_weighted_vote)

RECURSIVE vote_loop(_, _, _, _)
vote_loop(models, i, summed, disable_weighted_vote) ==
  IF i > Len(models) THEN summed
  ELSE
    LET y_proba_temp == models[i].proba
        metric_value == models[i].metric
        scaled == IF ~disable_weighted_vote /\ metric_value > 0
                    THEN [k \in DOMAIN y_proba_temp |-> y_proba_temp[k] * metric_value]
                    ELSE [k \in DOMAIN y_proba_temp |-> y_proba_temp[k] * 10]
    IN vote_loop(models, i + 1, CounterUpdate(summed, scaled), disable_weighted_vote)

\* predict_proba_one on a forest that has its members (lines 569-579)
weighted_vote(models, disable_weighted_vote) ==
  LET summed == vote_loop(models, 1, EmptyDict, disable_weighted_vote)
      total == DictSum(summed)
  IN IF total > 0
       THEN [label \in DOMAIN summed |-> <<summed[label], total>>]
       ELSE [label \in DOMAIN summed |-> <<summed[label], 100>>]

RECURSIVE SumSeq(_)
SumSeq(q) == IF q = <<>> THEN 0 ELSE Head(q) + SumSeq(Tail(q))

\* q in ascending order
RECURSIVE Ascending(_)
Ascending(q) ==
  IF q = <<>> THEN <<>>
  ELSE LET i == CHOOSE j \in 1..Len(q) : \A k \in 1..Len(q) : q[j] <= q[k]
       IN <<q[i]>> \o Ascending([k \in 1..(Len(q) - 1) |-> IF k < i THEN q[k] ELSE q[k + 1]])

\* nan
NaN == <<0, 0>>

\* np.median of the numbers num[i] / den, den > 0
median(num, den) ==
  LET n == Len(num)
      sorted == Ascending(num)
  IN IF n % 2 = 1 THEN <<sorted[(n + 1) \div 2], den>>
     ELSE <<sorted[n \div 2] + sorted[n \div 2 + 1], 2 * den>>

\* predict_one of the regressor on a forest that has its members (lines
\* 829-854).  The metric values are errors, never negative, so weights.sum() is
\* 0 only when every inverted weight is 0, and the division gives nan.
predict_one(models, disable_weighted_vote, aggregation_method) ==
  LET n == Len(models)
      raw == [i \in 1..n |-> models[i].pred]
      weights == [i \in 1..n |-> models[i].metric]
      sum_weights == SumSeq(weights)
      inverted == [i \in 1..n |-> sum_weights - weights[i]]
      scaling == ~disable_weighted_vote /\ sum_weights # 0
      num == IF scaling THEN [i \in 1..n |-> raw[i] * inverted[i]] ELSE raw
      den == IF scaling THEN SumSeq(inverted) ELSE 1
  IN IF den = 0 THEN NaN
     ELSE IF aggregation_method = "mean" THEN <<SumSeq(num), n * den>>
     ELSE median(num, den)

\* model.predict_proba_one(x) of a tree: all the probability on the label it
\* predicts, nothing when it is untrained
TreeProba(t) == IF TreePredict(t) = "None" THEN EmptyDict ELSE (TreePredict(t) :> 10)

\* metric.get()
MetricGet(mt) == IF mt.n_updates = 0 THEN 0 ELSE 10

predict_proba_one(f, st, n_feat) ==
  IF f.models = <<>>
    THEN LET ini == init_ensemble(f, st, n_feat)
         IN [forest |-> ini.forest, state |-> ini.state, result |-> EmptyDict,
             raised |-> ini.raised]
    ELSE [forest |-> f, state |-> st,
          result |-> weighted_vote([i \in 1..Len(f.models) |->
                                      [proba |-> TreeProba(f.models[i].model),
                                       pred |-> 0,
                                       metric |-> MetricGet(f.models[i].metric)]],
                                   f.disable_weighted_vote),
          raised |-> FALSE]

\* BaseForest.reset(): the generator the forest uses next is a new one seeded
\* from the seed when the seed is an integer, numpy's global one as it stands
\* otherwise
forest_reset(f, st) ==
  [forest |-> [f EXCEPT !.models = <<>>, !.n_samples_seen = 0],
   state |-> IF f.seed_is_int THEN RandomState(f.seed) ELSE st,
   result |-> "None",
   raised |-> FALSE]

\* ---------------------------------------------------- forest actions
Snapshot(r) ==
  [result |-> r.result,
   raised |-> r.raised,
   models |-> r.forest.models,
   n_samples_seen |-> r.forest.n_samples_seen,
   max_features |-> r.forest.max_features]

ForInit ==
  /\ \E seed_is_int \in BOOLEAN, seed \in 1..MaxSeed, global \in 0..6,
        mf \in {[kind |-> "sqrt", val |-> 0], [kind |-> "other", val |-> 0]} :
       /\ seed_is_int => global = 0
       /\ ~seed_is_int => seed = 1
       /\ forests = [f \in 1..2 |->
                       BaseForest(f, seed_is_int, seed, mf,
                                  <<Detector(1)>>, <<Detector(2)>>, Metric(TRUE))]
       /\ rngs = [g \in 0..2 |-> IF g = 0 THEN global ELSE RandomState(seed)]
  /\ tape = <<>>
  /\ outs = [f \in 1..2 |-> <<>>]
  /\ restarted = FALSE
  /\ ensemble = NoEnsemble
  /\ prediction = <<>>
  /\ agg_op = "none"
  /\ root = 0
  /\ nodes = <<>>
  /\ obs = <<>>
  /\ n_calls = 0
  /\ last_op = "init"
  /\ suggestion = NoSuggestion
  /\ calls = <<>>
  /\ member = <<>>
  /\ n_samples_seen = 0
  /\ next_id = 0
  /\ mlog = <<>>
  /\ max_features = [kind |-> "none", val |-> 0]
  /\ n_features = 1
  /\ mf_config = [kind |-> "none", val |-> 0]
  /\ mf_pc = "configured"
  /\ reg_var = Var
  /\ detector_input = <<>>
  /\ n_inputs = 0

\* Forest f is fed its next call; the call is the next one of the tape, or a
\* new one put on the tape when f is the first to get there.
Feed(f, call, r) ==
  /\ Len(outs[f]) < MaxTape
  /\ IF Len(outs[f]) < Len(tape)
       THEN tape[Len(outs[f]) + 1] = call /\ tape' = tape
       ELSE tape' = Append(tape, call)
  /\ forests' = [forests EXCEPT ![f] = r.forest]
  /\ rngs' = [rngs EXCEPT ![forests[f].rng] = r.state]
  /\ outs' = [outs EXCEPT ![f] = Append(@, Snapshot(r))]
  /\ UNCHANGED restarted
  /\ UNCHANGED obsVars
  /\ UNCHANGED memVars
  /\ UNCHANGED mfVars
  /\ UNCHANGED aggVars
  /\ UNCHANGED inpVars

\* forest.learn_one(x, y), x having n_feat features
ForestLearn(f, y, n_feat) ==
  Feed(f, [op |-> "learn_one", y |-> y, n_feat |-> n_feat],
       forest_learn_one(forests[f], rngs[forests[f].rng], y, n_feat))

\* forest.predict_proba_one(x)
ForestPredict(f, n_feat) ==
  Feed(f, [op |-> "predict_proba_one", y |-> "None", n_feat |-> n_feat],
       predict_proba_one(forests[f], rngs[forests[f].rng], n_feat))

\* The numbers of features the examples have
FeatureCounts == {1, MaxFeatures}

ForNext ==
  \/ \E f \in 1..2, y \in Labels, n_feat \in FeatureCounts : ForestLearn(f, y, n_feat)
  \/ \E f \in 1..2, n_feat \in FeatureCounts : ForestPredict(f, n_feat)

SpecForest == ForInit /\ [][ForNext]_vars

\* ------------------------------------------------- restart of a forest
\* Two forests of the same valid configuration and integer seed; forest 1 is
\* fed learn_one calls of its own and reset, then both are fed the same calls.
RestartInit ==
  /\ ForInit
  /\ forests[1].seed_is_int
  /\ forests[1].max_features.kind = "sqrt"

\* forest 1 learns an example before its reset
Prelude(y, n_feat) ==
  /\ ~restarted
  /\ forests[1].n_samples_seen < MaxPrelude
  /\ LET r == forest_learn_one(forests[1], rngs[forests[1].rng], y, n_feat) IN
       /\ forests' = [forests EXCEPT ![1] = r.forest]
       /\ rngs' = [rngs EXCEPT ![forests[1].rng] = r.state]
  /\ UNCHANGED <<tape, outs, restarted>>
  /\ UNCHANGED obsVars
  /\ UNCHANGED memVars
  /\ UNCHANGED mfVars
  /\ UNCHANGED aggVars
  /\ UNCHANGED inpVars

\* forest 1 is reset
Restart ==
  /\ ~restarted
  /\ LET r == forest_reset(forests[1], rngs[forests[1].rng]) IN
       /\ forests' = [forests EXCEPT ![1] = r.forest]
       /\ rngs' = [rngs EXCEPT ![forests[1].rng] = r.state]
  /\ restarted' = TRUE
  /\ UNCHANGED <<tape, outs>>
  /\ UNCHANGED obsVars
  /\ UNCHANGED memVars
  /\ UNCHANGED mfVars
  /\ UNCHANGED aggVars
  /\ UNCHANGED inpVars

RestartNext ==
  \/ \E y \in Labels, n_feat \in FeatureCounts : Prelude(y, n_feat)
  \/ Restart
  \/ \E f \in 1..2, y \in Labels, n_feat \in FeatureCounts : restarted /\ ForestLearn(f, y, n_feat)
  \/ \E f \in 1..2, n_feat \in FeatureCounts : restarted /\ ForestPredict(f, n_feat)

SpecRestart == RestartInit /\ [][RestartNext]_vars

\* ------------------------------------------------ the loop in any order
\* The orders in which the members 1..n can be processed.
Orders(n) ==
  {p \in [1..n -> 1..n] : \A a \in 1..n, b \in 1..n : (p[a] = p[b]) => (a = b)}

\* The loop bodies of the members run in the order given, from position j on,
\* member i being given the weight ks[i].
RECURSIVE InOrder(_, _, _, _, _, _, _)
InOrder(models, order, j, ks, y, n, id0) ==
  IF j > Len(models) THEN models
  ELSE InOrder(LoopBody(models, order[j], ks[order[j]], y, n, id0),
               order, j + 1, ks, y, n, id0)

\* BaseForest.learn_one(x, y) with the weights ks in the place of the draws
\* and the members taken in the order given
forest_learn_one_in_order(f, st, y, n_feat, ks, order) ==
  LET f1 == [f EXCEPT !.n_samples_seen = @ + 1]
      ini == IF f1.models = <<>> THEN init_ensemble(f1, st, n_feat)
                                 ELSE [forest |-> f1, state |-> st, raised |-> FALSE]
      after == InOrder(ini.forest.models, order, 1, ks, y,
                       ini.forest.n_samples_seen, ini.forest.next_id)
  IN [forest |-> [ini.forest EXCEPT !.models = after,
                                    !.next_id = @ + IdsPerCall * Len(after)],
      state |-> ini.state]

\* Two forests of the same valid configuration and seed, with or without a
\* warning detector.
OrderInit ==
  /\ \E seed \in 1..MaxSeed, use_warning \in BOOLEAN :
       /\ forests = [f \in 1..2 |->
                       BaseForest(f, TRUE, seed, [kind |-> "sqrt", val |-> 0],
                                  <<Detector(1)>>,
                                  IF use_warning THEN <<Detector(2)>> ELSE <<>>,
                                  Metric(TRUE))]
       /\ rngs = [g \in 0..2 |-> IF g = 0 THEN 0 ELSE RandomState(seed)]
  /\ tape = <<>>
  /\ outs = [f \in 1..2 |-> <<>>]
  /\ restarted = FALSE
  /\ ensemble = NoEnsemble
  /\ prediction = <<>>
  /\ agg_op = "none"
  /\ root = 0
  /\ nodes = <<>>
  /\ obs = <<>>
  /\ n_calls = 0
  /\ last_op = "init"
  /\ suggestion = NoSuggestion
  /\ calls = <<>>
  /\ member = <<>>
  /\ n_samples_seen = 0
  /\ next_id = 0
  /\ mlog = <<>>
  /\ max_features = [kind |-> "none", val |-> 0]
  /\ n_features = 1
  /\ mf_config = [kind |-> "none", val |-> 0]
  /\ mf_pc = "configured"
  /\ reg_var = Var
  /\ detector_input = <<>>
  /\ n_inputs = 0

\* Both forests learn the example, the members being given the weights ks:
\* forest 1 runs the loop in the order of the list, forest 2 in the order given.
OrderedLearn(y, ks, order) ==
  /\ forests[1].n_samples_seen < MaxRounds
  /\ LET r1 == forest_learn_one_in_order(forests[1], rngs[forests[1].rng], y, 1, ks,
                                         [i \in 1..NModels |-> i])
         r2 == forest_learn_one_in_order(forests[2], rngs[forests[2].rng], y, 1, ks, order)
     IN /\ forests' = [f \in 1..2 |-> IF f = 1 THEN r1.forest ELSE r2.forest]
        /\ rngs' = [g \in 0..2 |-> IF g = forests[1].rng THEN r1.state
                                   ELSE IF g = forests[2].rng THEN r2.state
                                   ELSE rngs[g]]
  /\ tape' = Append(tape, [op |-> "learn_one", y |-> y, n_feat |-> 1])
  /\ UNCHANGED <<outs, restarted>>
  /\ UNCHANGED obsVars
  /\ UNCHANGED memVars
  /\ UNCHANGED mfVars
  /\ UNCHANGED aggVars
  /\ UNCHANGED inpVars

OrderNext ==
  \E y \in Labels, ks \in [1..NModels -> {0, MaxWeight}], order \in Orders(NModels) : OrderedLearn(y, ks, order)

SpecOrder == OrderInit /\ [][OrderNext]_vars

\* ----------------------------------- aggregation on given member answers
ProbaVectors == {"A" :> 0, "A" :> 9, ("A" :> 1) @@ ("B" :> 9), "B" :> 10}

ClassifierMetrics == {-5, 0, 5, 10}

Predictions == {-2, 0, 4}

RegressorMetrics == {0, 1, 3}

SeqsUpTo(S, n) == UNION {[1..k -> S] : k \in 1..n}

AggInit ==
  /\ \/ ensemble \in [regressor : {FALSE},
                       models : SeqsUpTo([proba : ProbaVectors, pred : {0},
                                          metric : ClassifierMetrics], MaxModels),
                       disable_weighted_vote : BOOLEAN,
                       aggregation_method : {"none"}]
     \/ ensemble \in [regressor : {TRUE},
                       models : SeqsUpTo([proba : {EmptyDict}, pred : Predictions,
                                          metric : RegressorMetrics], MaxModels),
                       disable_weighted_vote : BOOLEAN,
                       aggregation_method : {"mean", "median"}]
  /\ prediction = <<>>
  /\ agg_op = "none"
  /\ forests = <<>>
  /\ rngs = <<>>
  /\ tape = <<>>
  /\ outs = <<>>
  /\ restarted = FALSE
  /\ root = 0
  /\ nodes = <<>>
  /\ obs = <<>>
  /\ n_calls = 0
  /\ last_op = "init"
  /\ suggestion = NoSuggestion
  /\ calls = <<>>
  /\ member = <<>>
  /\ n_samples_seen = 0
  /\ next_id = 0
  /\ mlog = <<>>
  /\ max_features = [kind |-> "none", val |-> 0]
  /\ n_features = 1
  /\ mf_config = [kind |-> "none", val |-> 0]
  /\ mf_pc = "configured"
  /\ reg_var = Var
  /\ detector_input = <<>>
  /\ n_inputs = 0

\* AdaptiveRandomForestClassifier.predict_proba_one(x)
ClassifierPredict ==
  /\ agg_op = "none"
  /\ ~ensemble.regressor
  /\ prediction' = weighted_vote(ensemble.models, ensemble.disable_weighted_vote)
  /\ agg_op' = "predict_proba_one"
  /\ UNCHANGED ensemble
  /\ UNCHANGED obsVars
  /\ UNCHANGED memVars
  /\ UNCHANGED mfVars
  /\ UNCHANGED forVars
  /\ UNCHANGED inpVars

\* AdaptiveRandomForestRegressor.predict_one(x)
RegressorPredict ==
  /\ agg_op = "none"
  /\ ensemble.regressor
  /\ prediction' = predict_one(ensemble.models, ensemble.disable_weighted_vote,
                               ensemble.aggregation_method)
  /\ agg_op' = "predict_one"
  /\ UNCHANGED ensemble
  /\ UNCHANGED obsVars
  /\ UNCHANGED memVars
  /\ UNCHANGED mfVars
  /\ UNCHANGED forVars
  /\ UNCHANGED inpVars

AggNext == ClassifierPredict \/ RegressorPredict

SpecAggregate == AggInit /\ [][AggNext]_vars

\* ------------------------------------------------ observer properties
RECURSIVE MaxBruteMerit(_, _)
MaxBruteMerit(os, S) ==
  IF S = {} THEN NegInf
  ELSE LET v == CHOOSE x \in S : TRUE
           m == MaxBruteMerit(os, S \ {v})
           b == BruteMerit(os, v)
       IN IF b > m THEN b ELSE m

\* C1: after a query on an observer with at least one observation, the merit of
\* the returned suggestion is the greatest merit, over the inserted values used
\* as threshold, of the split obtained by re-scanning the raw observations.
C1_SplitSearchExact ==
  (last_op = "query" /\ obs # <<>>) =>
     suggestion.merit = MaxBruteMerit(obs, InsertedValues(obs))

\* C2: every pair of distributions handed to the criterion by a query is the
\* exact split of the raw observations at the visited node's cut_point.
C2_NodeDistsExact ==
  last_op = "query" =>
     \A i \in 1..Len(calls) :
        LET cp == nodes[calls[i].node].cut_point IN
          /\ calls[i].post[1] = ScanDist(obs, cp, TRUE)
          /\ calls[i].post[2] = ScanDist(obs, cp, FALSE)

RECURSIVE NodesWeight(_, _)
NodesWeight(ns, i) ==
  IF i = 0 THEN 0
  ELSE DictSum(ns[i].class_count_left) + DictSum(ns[i].class_count_right)
         + NodesWeight(ns, i - 1)

RootWeight ==
  IF root = 0 THEN 0
  ELSE DictSum(nodes[root].class_count_left) + DictSum(nodes[root].class_count_right)

\* C3 as stated: the inserted weight equals the counts summed over every node.
C3_AllNodesCarryTotal == TotalWeight(obs) = NodesWeight(nodes, Len(nodes))

\* C3 amended: the inserted weight equals the counts of the root node, and the
\* counts summed over every node are at least the inserted weight.
C3_RootCarriesTotal ==
  /\ TotalWeight(obs) = RootWeight
  /\ TotalWeight(obs) <= NodesWeight(nodes, Len(nodes))

\* An observer holding three nodes, one of them reached by an equal value.
C3_Witness ==
  /\ Len(nodes) >= 2
  /\ Len(obs) > Len(nodes)
  /\ \E i \in 1..Len(obs) : obs[i].value = nodes[root].cut_point /\ i > 1

\* -------------------------------------------------- member properties
Entries == 1..Len(mlog)

Replaced(e) == e.model_after # e.model_before

\* C5: without a warning detector, when the drift detector signals in one learn
\* call only, the tree is replaced in that call and in no other,
\* n_drifts_detected reads 1 and last_drift_on is the sample count of that call.
C5_ReplacedExactlyOnce ==
  (member.use_drift_detector /\ ~member.use_background_learner) =>
     \A k \in Entries :
        (mlog[k].drift /\ \A j \in Entries \ {k} : ~mlog[j].drift) =>
           /\ \A j \in Entries : Replaced(mlog[j]) <=> (j = k)
           /\ member.n_drifts_detected = 1
           /\ member.last_drift_on = mlog[k].n

\* A drift in the second learn call, which is not the second example, followed
\* by a further learn call.
C5_Witness ==
  /\ member.use_drift_detector /\ ~member.use_background_learner
  /\ Len(mlog) = 4
  /\ mlog[1].k > 0 /\ mlog[2].k = 0 /\ mlog[3].drift /\ mlog[4].k > 0
  /\ ~mlog[1].drift /\ ~mlog[4].drift

\* C6: with both detectors, from a learn call in which the warning detector
\* signals up to the call before the next drift signal a background learner is
\* present at the end of every call; at the end of the call of the drift signal
\* it is absent and the member's tree is the tree the background learner owned.
C6_BackgroundPromotion ==
  (member.use_drift_detector /\ member.use_background_learner) =>
     \A kw \in Entries, kd \in Entries :
        ( /\ kw < kd
          /\ mlog[kw].warning
          /\ mlog[kd].drift
          /\ \A j \in kw..(kd - 1) : ~mlog[j].drift ) =>
           /\ \A j \in kw..(kd - 1) : mlog[j].bg_after
           /\ ~mlog[kd].bg_after
           /\ mlog[kd].model_after =
                 IF mlog[kd].warning THEN mlog[kd].id0 + 1
                                     ELSE mlog[kd].bg_model_before

\* A warning in the first call, a drift in the third, the background learner
\* having shadow-trained in between and been promoted.
C6_Witness ==
  /\ Len(mlog) >= 3
  /\ mlog[1].warning /\ ~mlog[1].drift
  /\ mlog[2].k > 0 /\ ~mlog[2].warning /\ ~mlog[2].drift
  /\ mlog[3].drift /\ ~mlog[3].warning
  /\ Len(member.model.learned) = 2
  /\ member.background_learner = <<>>

\* C7: a member without a drift detector never changes lifecycle state, even
\* with a warning detector that would signal: the tree is never replaced, there
\* is never a background learner, the warning detector receives no update and
\* the drift and warning counters and timestamps stay 0.
C7_NoDriftDetectorNoLifecycle ==
  ~member.use_drift_detector =>
     /\ \A j \in Entries : ~Replaced(mlog[j]) /\ ~mlog[j].bg_after
     /\ member.background_learner = <<>>
     /\ member.drift_detector = <<>>
     /\ member.warning_detector # <<>> => member.warning_detector[1].n_updates = 0
     /\ member.n_drifts_detected = 0
     /\ member.n_warnings_detected = 0
     /\ member.last_drift_on = 0
     /\ member.last_warning_on = 0

\* A member with a warning detector only, after learn calls in which the
\* warning detector would have signalled.
C7_Witness ==
  /\ ~member.use_drift_detector /\ member.use_background_learner
  /\ Len(mlog) >= 2
  /\ mlog[1].k > 0 /\ mlog[1].warning
  /\ mlog[2].k > 0
  /\ Len(member.model.learned) >= 2

DriftCount == Cardinality({j \in Entries : mlog[j].drift})

\* C8: with a drift detector and no warning detector there is never a
\* background learner and n_warnings_detected stays 0, and every drift signal
\* performs a clone-reset: a fresh untrained tree, a fresh drift detector and
\* n_drifts_detected incremented.
C8_NoWarningCloneReset ==
  (member.use_drift_detector /\ ~member.use_background_learner) =>
     /\ member.background_learner = <<>>
     /\ \A j \in Entries : ~mlog[j].bg_after
     /\ member.warning_detector = <<>>
     /\ member.n_warnings_detected = 0
     /\ member.last_warning_on = 0
     /\ member.n_drifts_detected = DriftCount
     /\ \A j \in Entries : mlog[j].drift =>
           /\ mlog[j].model_after = mlog[j].id0 + 5
           /\ Replaced(mlog[j])
     /\ (mlog # <<>> /\ mlog[Len(mlog)].drift) =>
           /\ member.model = Tree(mlog[Len(mlog)].id0 + 5, 0, 1)
           /\ member.drift_detector = <<Detector(mlog[Len(mlog)].id0 + 6)>>
           /\ member.created_on = mlog[Len(mlog)].n

\* Two drift signals without a warning detector, the second just handled.
C8_Witness ==
  /\ member.use_drift_detector /\ ~member.use_background_learner
  /\ Len(mlog) >= 3
  /\ mlog[1].drift /\ mlog[Len(mlog)].drift
  /\ member.n_drifts_detected = 2

DetectorsUntouched(b) ==
  /\ b.drift_detector # <<>> => b.drift_detector[1].n_updates = 0
  /\ b.warning_detector # <<>> => b.warning_detector[1].n_updates = 0

BackgroundShape(m) ==
  /\ ~m.is_background_learner
  /\ m.background_learner # <<>> =>
       LET b == m.background_learner[1] IN
         /\ b.is_background_learner
         /\ b.background_learner = <<>>
         /\ b.n_drifts_detected = 0
         /\ b.n_warnings_detected = 0
         /\ b.last_drift_on = 0
         /\ b.last_warning_on = 0
         /\ DetectorsUntouched(b)

\* C9: a background learner is flagged as such, has no background learner of
\* its own, zero drift and warning counters and detectors that received no
\* update; while it stays in the background only its tree changes; the
\* foreground member is never flagged as a background learner.
C9_DepthOneBackground ==
  [][ /\ BackgroundShape(member)
      /\ BackgroundShape(member')
      /\ ( /\ member.background_learner # <<>>
           /\ member'.background_learner # <<>>
           /\ member'.background_learner[1].model.id = member.background_learner[1].model.id )
         => member'.background_learner[1] =
               [member.background_learner[1] EXCEPT
                   !.model = member'.background_learner[1].model] ]_vars

\* A background learner that has shadow-trained on two examples while the
\* foreground detectors were being updated.
C9_Witness ==
  /\ member.background_learner # <<>>
  /\ Len(member.background_learner[1].model.learned) >= 2
  /\ member.drift_detector[1].n_updates >= 3
  /\ member.warning_detector[1].n_updates >= 2

\* C19: update with a missing value changes nothing of the observer (the root,
\* every node's cut_point, class_count_left, class_count_right and children),
\* and a best-split query made after it returns, with the same criterion calls,
\* the suggestion a query made before it returns.
C19_MissingValueNoOp ==
  [][(last_op' = "update_missing") =>
       (/\ root' = root
        /\ nodes' = nodes
        /\ best_evaluated_split_suggestion(nodes', root', TotalDist(obs'))
             = best_evaluated_split_suggestion(nodes, root, TotalDist(obs)))]_vars

\* A query on two nodes, one of whose updates had a missing value has returned
\* a split.
C19_Witness ==
  /\ last_op = "query"
  /\ n_calls = Len(obs) + 1
  /\ Len(nodes) = 2
  /\ ~suggestion.split_test.none

\* C20: an observer that has received no update, or only updates with missing
\* values, answers a best-split query with the sentinel, merit = -infinity and
\* no split test, and the criterion is not called.
C20_EmptyObserverSentinel ==
  (last_op = "query" /\ obs = <<>>) =>
     /\ suggestion.merit = NegInf
     /\ suggestion.split_test.none
     /\ suggestion = NoSuggestion
     /\ calls = <<>>

\* A query answered after two updates with missing values and no other.
C20_Witness ==
  /\ last_op = "query"
  /\ obs = <<>>
  /\ root = 0
  /\ n_calls = 2
  /\ suggestion.merit = NegInf

\* --------------------------------------------- max_features properties
Clamp(v, n) == IF v <= 0 THEN 1 ELSE IF v > n THEN n ELSE v

\* C10 as stated: the value per kind of configuration, a negative integer
\* configuration v giving v + n, then the clamp into [1, n].
C10_ResolutionAsStated ==
  mf_pc = "resolved" =>
     /\ max_features.kind = "int"
     /\ max_features.val =
          Clamp(CASE mf_config.kind = "sqrt" -> RoundSqrt(n_features)
                  [] mf_config.kind = "log2" -> RoundLog2(n_features)
                  [] mf_config.kind = "float" -> IntOfEighths(mf_config.val * n_features)
                  [] mf_config.kind = "none" -> n_features
                  [] mf_config.kind = "int" /\ mf_config.val >= 0 -> mf_config.val
                  [] mf_config.kind = "int" /\ mf_config.val < 0 -> mf_config.val + n_features,
                n_features)

\* C10 amended: the value per kind of configuration; any negative value v so
\* obtained, int(f*n) of a negative float included, gives v + n; then the clamp
\* into [1, n].  The four examples of the specification are resolved as given.
C10_Resolution ==
  mf_pc = "resolved" =>
     LET n == n_features
         v == CASE mf_config.kind = "sqrt" -> RoundSqrt(n)
                [] mf_config.kind = "log2" -> RoundLog2(n)
                [] mf_config.kind = "float" -> IntOfEighths(mf_config.val * n)
                [] mf_config.kind = "none" -> n
                [] mf_config.kind = "int" -> mf_config.val
     IN /\ max_features.kind = "int"
        /\ max_features.val = Clamp(IF v < 0 THEN v + n ELSE v, n)
        /\ max_features.val \in 1..n
        /\ (mf_config = [kind |-> "sqrt", val |-> 0] /\ n = 16) => max_features.val = 4
        /\ (mf_config = [kind |-> "int", val |-> -1] /\ n = 10) => max_features.val = 9
        /\ (mf_config = [kind |-> "float", val |-> 4] /\ n = 10) => max_features.val = 5
        /\ (mf_config = [kind |-> "none", val |-> 0] /\ n = 7) => max_features.val = 7

\* max_features = -0.5 resolved on 10 features: int(-5.0) + 10 = 5.
C10_Witness ==
  /\ mf_pc = "resolved"
  /\ mf_config = [kind |-> "float", val |-> -4]
  /\ n_features = 10
  /\ max_features = IntValue(5)

\* C11: once max_features has been resolved on the first example its value
\* never changes again, whatever learn, predict and reset() calls follow and
\* however many features the later examples have.
C11_ResolvedValueFixed ==
  [][(mf_pc \in {"resolved", "reset", "reresolved"}) => (max_features' = max_features)]_vars

\* C12: a max_features of invalid type is fatal in the constructor: no forest
\* with such a value is ever left constructed, and no learn or predict call is
\* the one that raises for it.
C12_InvalidTypeFatalAtConstruction ==
  mf_config.kind \in {"str", "other"} => mf_pc \notin {"configured", "raised"}

\* ---------------------------------------------------- forest properties
Fed(f) == Len(outs[f])

\* The calls of the tape before call i
RECURSIVE LearnsBefore(_)
LearnsBefore(i) ==
  IF i <= 1 THEN 0
  ELSE (IF tape[i - 1].op = "learn_one" THEN 1 ELSE 0) + LearnsBefore(i - 1)

\* C13: a predict call on a forest that has seen no example returns the neutral
\* default, the empty probability mapping, without raising, and
\* n_samples_seen stays 0.
C13_PredictBeforeAnyExample ==
  \A f \in 1..2 : \A i \in 1..MaxTape :
     (i <= Len(outs[f]) /\ tape[i].op = "predict_proba_one" /\ LearnsBefore(i) = 0) =>
        /\ ~outs[f][i].raised
        /\ outs[f][i].result = EmptyDict
        /\ outs[f][i].n_samples_seen = 0

\* What a call produced, object identities left out: the returned value and,
\* member by member, the tree (its parameters and the examples with the
\* resample weights it learned) and the drift and warning counts.
Produced(o) ==
  [result |-> o.result,
   raised |-> o.raised,
   n_samples_seen |-> o.n_samples_seen,
   members |-> [i \in DOMAIN o.models |->
                  [seed |-> o.models[i].model.seed,
                   max_features |-> o.models[i].model.max_features,
                   learned |-> o.models[i].model.learned,
                   created_on |-> o.models[i].created_on,
                   n_drifts_detected |-> o.models[i].n_drifts_detected,
                   n_warnings_detected |-> o.models[i].n_warnings_detected]]]

C4_EnsembleDeterminism ==
  forests[1].seed_is_int =>
     \A i \in 1..MaxTape : (i <= Fed(1) /\ i <= Fed(2)) => outs[1][i] = outs[2][i]

\* Both forests have been fed three calls, the last a prediction, a member
\* having detected a drift and another a warning on the way.
C4_Witness ==
  /\ forests[1].seed_is_int
  /\ Fed(1) = 3 /\ Fed(2) = 3
  /\ tape[3].op = "predict_proba_one"
  /\ \E i \in 1..NModels : forests[1].models[i].n_drifts_detected > 0
  /\ \E i \in 1..NModels : forests[1].models[i].n_warnings_detected > 0
  /\ \E y \in Labels : y \in DOMAIN outs[2][3].result

\* ------------------------------------------------ aggregation properties
\* The three members of the aggregation example, weighted vote enabled
C15_Ensemble ==
  [regressor |-> FALSE,
   models |-> <<[proba |-> "A" :> 9, pred |-> 0, metric |-> 10],
                [proba |-> ("A" :> 1) @@ ("B" :> 9), pred |-> 0, metric |-> 5],
                [proba |-> "B" :> 10, pred |-> 0, metric |-> 5]>>,
   disable_weighted_vote |-> FALSE,
   aggregation_method |-> "none"]

\* C15 as stated: on the example the score before normalisation is 0.9 for A
\* and 0.95 for B, and B strictly outscores A in the returned probabilities.
C15_ExampleAsStated ==
  (ensemble = C15_Ensemble /\ agg_op = "predict_proba_one") =>
     /\ prediction["A"][1] = 90
     /\ prediction["B"][1] = 95
     /\ prediction["B"][1] * prediction["A"][2] > prediction["A"][1] * prediction["B"][2]

\* C15 amended: on the example the score before normalisation is
\* 0.9*1.0 + 0.1*0.5 = 0.95 for A and 0.9*0.5 + 1.0*0.5 = 0.95 for B; the
\* returned probabilities are 0.95 / 1.9 each, so B does not outscore A.
C15_Example ==
  (ensemble = C15_Ensemble /\ agg_op = "predict_proba_one") =>
     /\ DOMAIN prediction = {"A", "B"}
     /\ prediction["A"] = <<95, 190>>
     /\ prediction["B"] = <<95, 190>>

C15_Witness ==
  /\ ensemble = C15_Ensemble
  /\ agg_op = "predict_proba_one"
  /\ prediction["A"][1] = 9 * 10 + 1 * 5
  /\ prediction["B"][1] = 9 * 5 + 10 * 5

\* The weight w_m of member m: its metric value when the weighted vote is
\* enabled and the value is > 0, else 1 (ten tenths)
MemberWeight(m) ==
  IF ~ensemble.disable_weighted_vote /\ m.metric > 0 THEN m.metric ELSE 10

\* The sum of w_m * p_m(label) over the members 1..i, in hundredths
RECURSIVE Score(_, _)
Score(label, i) ==
  IF i = 0 THEN 0
  ELSE MemberWeight(ensemble.models[i]) * Get(ensemble.models[i].proba, label)
         + Score(label, i - 1)

SeenLabels == UNION {DOMAIN ensemble.models[i].proba : i \in 1..Len(ensemble.models)}

Scores == [label \in SeenLabels |-> Score(label, Len(ensemble.models))]

\* C16: predict_proba_one returns for every label the sum over the members of
\* w_m * p_m(label) divided by the total over the labels, the values summing to
\* 1, when the total is > 0; the all-zero sums themselves when the total is 0.
C16_ClassificationAggregation ==
  agg_op = "predict_proba_one" =>
     /\ DOMAIN prediction = SeenLabels
     /\ IF DictSum(Scores) > 0
          THEN /\ \A label \in SeenLabels : prediction[label] = <<Scores[label], DictSum(Scores)>>
               /\ DictSum([label \in SeenLabels |-> prediction[label][1]]) = DictSum(Scores)
          ELSE \A label \in SeenLabels : Scores[label] = 0 /\ prediction[label] = <<0, 100>>

\* Weighted vote enabled, a member of metric <= 0 that votes and another of
\* metric 0.5, two labels returned with different probabilities.
C16_Witness ==
  /\ agg_op = "predict_proba_one"
  /\ ~ensemble.disable_weighted_vote
  /\ \E i, j \in 1..Len(ensemble.models) :
        /\ ensemble.models[i].metric <= 0
        /\ DictSum(ensemble.models[i].proba) > 0
        /\ ensemble.models[j].metric = 5
        /\ DictSum(ensemble.models[j].proba) > 0
  /\ DOMAIN prediction = {"A", "B"}
  /\ prediction["A"][1] > prediction["B"][1]
  /\ prediction["B"][1] > 0
  /\ prediction["A"][2] = prediction["A"][1] + prediction["B"][1]

\* The members' raw predictions and metric values
RawPredictions == [i \in 1..Len(ensemble.models) |-> ensemble.models[i].pred]

TotalMetric == SumSeq([i \in 1..Len(ensemble.models) |-> ensemble.models[i].metric])

InvertedWeights == [i \in 1..Len(ensemble.models) |-> TotalMetric - ensemble.models[i].metric]

\* C17: with "mean", the weighted vote enabled and a non-zero total metric, the
\* weights (total_metric - metric_i) can be normalised to sum to 1 and
\* predict_one returns the sum of w_i * p_i for them, whatever n_models >= 1;
\* when every member predicts v the result is v.
C17_WeightedMean ==
  (/\ agg_op = "predict_one"
   /\ ensemble.aggregation_method = "mean"
   /\ ~ensemble.disable_weighted_vote
   /\ TotalMetric # 0) =>
     LET n == Len(ensemble.models)
         W == SumSeq(InvertedWeights)
         weighted_sum == SumSeq([i \in 1..n |-> InvertedWeights[i] * RawPredictions[i]])
     IN /\ prediction[2] # 0
        /\ prediction[1] * W = weighted_sum * prediction[2]
        /\ \A v \in Predictions :
             (\A i \in 1..n : RawPredictions[i] = v) => prediction[1] = v * prediction[2]

\* C18: with "median" predict_one returns the median of the members' raw
\* predictions, whatever the metric values and disable_weighted_vote.
C18_PlainMedian ==
  (agg_op = "predict_one" /\ ensemble.aggregation_method = "median") =>
     LET m == median(RawPredictions, 1)
     IN /\ prediction[2] # 0
        /\ prediction[1] * m[2] = m[1] * prediction[2]


\* ------------------------------------------------ observer properties
\* The nodes of the subtree of node i: the node, its left subtree, its right
\* subtree.
RECURSIVE Preorder(_, _)
Preorder(ns, i) ==
  IF i = 0 THEN <<>>
  ELSE <<i>> \o Preorder(ns, ns[i].left) \o Preorder(ns, ns[i].right)

CallMerits == {calls[i].merit : i \in 1..Len(calls)}

FirstMaximalCall ==
  CHOOSE i \in 1..Len(calls) :
     /\ \A j \in 1..Len(calls) : calls[j].merit <= calls[i].merit
     /\ \A j \in 1..(i - 1) : calls[j].merit < calls[i].merit

\* C21: a query on a non-empty observer calls the criterion exactly once per
\* node, visiting a node, then its left subtree, then its right subtree; the
\* returned merit is the greatest of the merits evaluated, and the returned
\* split is that of the first node visited with that merit.
C21_FirstMaximalMerit ==
  (last_op = "query" /\ root # 0) =>
     /\ [i \in 1..Len(calls) |-> calls[i].node] = Preorder(nodes, root)
     /\ Len(calls) = Len(nodes)
     /\ \A n \in 1..Len(nodes) : Cardinality({i \in 1..Len(calls) : calls[i].node = n}) = 1
     /\ suggestion.merit \in CallMerits
     /\ \A x \in CallMerits : x <= suggestion.merit
     /\ suggestion.split_test =
          NumericAttributeBinaryTest(nodes[calls[FirstMaximalCall].node].cut_point, TRUE)
     /\ suggestion.resulting_class_distributions = calls[FirstMaximalCall].post

\* A query on three nodes in which a later node reaches the merit of the first
\* maximal one.
C21_Witness ==
  /\ last_op = "query"
  /\ Len(nodes) = 3
  /\ \E j \in 1..Len(calls) :
        /\ j > FirstMaximalCall
        /\ calls[j].merit = calls[FirstMaximalCall].merit
  /\ suggestion.split_test.att_value = nodes[calls[FirstMaximalCall].node].cut_point


\* The search path of a value: the nodes insert_value visits from node i on,
\* ending at the node of equal cut_point or at the node whose child on the
\* value's side is absent.
RECURSIVE SearchPath(_, _, _)
SearchPath(ns, i, val) ==
  IF i = 0 THEN <<>>
  ELSE IF val = ns[i].cut_point THEN <<i>>
  ELSE IF val < ns[i].cut_point THEN <<i>> \o SearchPath(ns, ns[i].left, val)
  ELSE <<i>> \o SearchPath(ns, ns[i].right, val)

OnPath(path) == {path[j] : j \in 1..Len(path)}

\* A path node after the update: the weight added on the side taken.
Routed(nd, o) ==
  IF o.value > nd.cut_point
    THEN [nd EXCEPT !.class_count_right = Inc(@, o.label, o.weight)]
    ELSE [nd EXCEPT !.class_count_left = Inc(@, o.label, o.weight)]

\* C27: an update whose value reaches a node of equal cut_point adds the weight
\* to that node's left counts of the label only: its right counts, its children
\* and every node below it or off the path are unchanged, no node is created,
\* the nodes above it on the path are incremented on the side taken; and the
\* split test a query then builds lets the equal value pass (to the left).
C27_EqualRoutedLeft ==
  [][(last_op' = "update" /\ root # 0) =>
       LET o == obs'[Len(obs')]
           path == SearchPath(nodes, root, o.value)
           e == path[Len(path)]
       IN (nodes[e].cut_point = o.value) =>
            (/\ root' = root
             /\ Len(nodes') = Len(nodes)
             /\ nodes'[e].class_count_left[o.label]
                  = Get(nodes[e].class_count_left, o.label) + o.weight
             /\ nodes'[e] = [nodes[e] EXCEPT !.class_count_left = Inc(@, o.label, o.weight)]
             /\ \A j \in (1..Len(nodes)) \ OnPath(path) : nodes'[j] = nodes[j]
             /\ \A j \in OnPath(path) \ {e} : nodes'[j] = Routed(nodes[j], o)
             /\ best_evaluated_split_suggestion(nodes', root', TotalDist(obs')).best
                   .split_test.equal_passes_test)]_vars

\* A value inserted a second time below the root: three updates, two nodes,
\* the last value that of the second node.
C27_Witness ==
  /\ last_op = "update"
  /\ Len(obs) = 3
  /\ Len(nodes) = 2
  /\ obs[3].value = nodes[2].cut_point
  /\ DictSum(nodes[2].class_count_left) = obs[2].weight + obs[3].weight
  /\ nodes[2].class_count_right = EmptyDict

\* C28: an update adds the weight to the left counts of the label at every path
\* node of greater cut_point and to the right counts at every path node of
\* smaller cut_point, leaves the nodes off the path as they were, and, when
\* the path ends at an absent child (or the tree is empty), creates exactly one
\* node there with cut_point = value, left counts {label: weight}, empty right
\* counts and no children.
C28_UnequalRouting ==
  [][(last_op' = "update") =>
       LET o == obs'[Len(obs')]
           path == SearchPath(nodes, root, o.value)
           fresh == [cut_point |-> o.value,
                     class_count_left |-> [l \in {o.label} |-> o.weight],
                     class_count_right |-> EmptyDict,
                     left |-> 0, right |-> 0]
       IN IF root = 0
            THEN root' = 1 /\ nodes' = <<fresh>>
            ELSE
              LET e == path[Len(path)] IN
              /\ root' = root
              /\ \A j \in (1..Len(nodes)) \ OnPath(path) : nodes'[j] = nodes[j]
              /\ \A j \in OnPath(path) \ {e} : nodes'[j] = Routed(nodes[j], o)
              /\ (nodes[e].cut_point # o.value) =>
                   /\ Len(nodes') = Len(nodes) + 1
                   /\ nodes'[Len(nodes')] = fresh
                   /\ nodes'[e] =
                        IF o.value < nodes[e].cut_point
                          THEN [Routed(nodes[e], o) EXCEPT !.left = Len(nodes')]
                          ELSE [Routed(nodes[e], o) EXCEPT !.right = Len(nodes')]
                   /\ IF o.value < nodes[e].cut_point
                        THEN nodes[e].left = 0 ELSE nodes[e].right = 0]_vars

\* Three different values inserted, the third below the second: a path of two
\* nodes ending at an absent child, where the third node has been created.
C28_Witness ==
  /\ last_op = "update"
  /\ Len(obs) = 3
  /\ Len(nodes) = 3
  /\ nodes[2].left = 3 \/ nodes[2].right = 3
  /\ nodes[3].cut_point = obs[3].value
  /\ nodes[3].class_count_right = EmptyDict
  /\ DictSum(nodes[1].class_count_left) + DictSum(nodes[1].class_count_right)
       = TotalWeight(obs)


\* ------------------------------------------- online bagging properties
\* The learn call just logged.
LastCall == mlog'[Len(mlog')]

DriftHandled == member'.n_drifts_detected # member.n_drifts_detected

\* C22: in the loop body one weight k is drawn for the member; with k = 0 the
\* member's tree, detectors, background learner, created_on and counters are
\* as before and only its metric has one update more; with k > 0 the tree (and
\* the tree of the background learner, if any, be it kept or promoted in the
\* call) has learned the example with sample_weight = k.
C22_OnlineBagging ==
  [][(mlog' # mlog) =>
       LET e == LastCall IN
       /\ (e.k = 0) =>
            /\ member'.metric.n_updates = member.metric.n_updates + 1
            /\ member' = [member EXCEPT !.metric = member'.metric]
            /\ member'.model.learned = member.model.learned
       /\ (e.k > 0 /\ ~DriftHandled) =>
            /\ member'.model =
                 TreeLearn(member.model, e.n, e.k)
            /\ (member.background_learner # <<>> /\ ~e.warning) =>
                 member'.background_learner[1].model =
                    TreeLearn(member.background_learner[1].model, e.n, e.k)
       /\ (e.k > 0 /\ DriftHandled /\ member.background_learner # <<>> /\ ~e.warning) =>
            member'.model = TreeLearn(member.background_learner[1].model, e.n, e.k)]_vars

\* A member with a background learner and updated detectors skipped an example
\* after having learned one with the weight MaxWeight.
C22_Witness ==
  /\ Len(mlog) >= 2
  /\ mlog[Len(mlog)].k = 0
  /\ mlog[1].k = MaxWeight
  /\ member.background_learner # <<>>
  /\ member.drift_detector[1].n_updates = 1
  /\ member.metric.n_updates = Len(mlog)
  /\ Len(member.model.learned) = 1
  /\ member.model.learned[1].sample_weight = MaxWeight


\* C23: in every call, whatever the weight drawn, the member's metric receives
\* exactly one update, with the label of the example and the prediction its
\* foreground tree made before learning the example (seen on the metric the
\* member keeps, that is when the call handles no drift); the metric of a
\* background learner that stays in the background is not updated.
C23_TestThenTrain ==
  [][(mlog' # mlog) =>
       LET e == LastCall IN
       /\ ~DriftHandled =>
            /\ member'.metric =
                 MetricUpdate(member.metric, e.n, Prediction(member.model))
            /\ member'.metric.n_updates = member.metric.n_updates + 1
            /\ member'.metric.last[1].y_pred.after = Len(member.model.learned)
       /\ ( /\ member.background_learner # <<>>
            /\ member'.background_learner # <<>>
            /\ ~e.warning ) =>
            member'.background_learner[1].metric = member.background_learner[1].metric]_vars

\* A trained tree predicted, its metric was updated and it then learned the
\* example, while a background learner of untouched metric shadow-trained.
C23_Witness ==
  /\ Len(mlog) >= 3
  /\ mlog[1].warning /\ ~mlog[2].warning /\ ~mlog[3].warning
  /\ member.n_drifts_detected = 0
  /\ member.metric.multiclass
  /\ member.metric.last # <<>>
  /\ member.metric.last[1].y_pred.after = 1
  /\ Len(member.model.learned) = 2
  /\ member.background_learner # <<>>
  /\ member.background_learner[1].metric.n_updates = 0
  /\ Len(member.background_learner[1].model.learned) = 1


\* ------------------------------------------------- reset properties
\* C29: a drift signal in a call that finds a background learner promotes it:
\* last_drift_on is the sample count, n_drifts_detected is one more, the tree
\* (which has learned the example in the call), the warning detector, the
\* drift detector, the metric and created_on are the background learner's,
\* there is no background learner any more, and index_original,
\* n_warnings_detected and last_warning_on are as before.  When the warning
\* detector signals in the same call, the background learner promoted is the
\* one just created (an untrained tree, fresh detectors, created_on the sample
\* count), the warning having been counted before the promotion.
C29_Promote ==
  [][(mlog' # mlog) =>
       LET e == LastCall IN
       /\ (e.drift /\ e.warning) =>
          /\ member'.last_drift_on = e.n
          /\ member'.n_drifts_detected = member.n_drifts_detected + 1
          /\ member'.model = Tree(e.id0 + 1, member.model.seed, member.model.max_features)
          /\ member'.warning_detector = <<Detector(e.id0 + 3)>>
          /\ member'.drift_detector = <<Detector(e.id0 + 2)>>
          /\ member'.created_on = e.n
          /\ member'.background_learner = <<>>
          /\ member'.index_original = member.index_original
          /\ member'.n_warnings_detected = member.n_warnings_detected + 1
          /\ member'.last_warning_on = e.n
       /\ (e.drift /\ ~e.warning /\ member.background_learner # <<>>) =>
          LET b == member.background_learner[1] IN
          /\ member'.last_drift_on = e.n
          /\ member'.n_drifts_detected = member.n_drifts_detected + 1
          /\ member'.model = TreeLearn(b.model, e.n, e.k)
          /\ member'.warning_detector = b.warning_detector
          /\ member'.drift_detector = b.drift_detector
          /\ member'.metric = b.metric
          /\ member'.created_on = b.created_on
          /\ member'.background_learner = <<>>
          /\ member'.index_original = member.index_original
          /\ member'.n_warnings_detected = member.n_warnings_detected
          /\ member'.last_warning_on = member.last_warning_on]_vars

\* A regression member promoted in the fourth call the background learner it
\* had created in the second: created_on and the metric are the background
\* learner's.
C29_Witness ==
  /\ Len(mlog) = 4
  /\ ~mlog[1].warning /\ mlog[2].warning /\ ~mlog[3].warning /\ ~mlog[4].warning
  /\ ~mlog[1].drift /\ ~mlog[2].drift /\ ~mlog[3].drift /\ mlog[4].drift
  /\ mlog[3].k > 0
  /\ ~member.metric.multiclass
  /\ member.created_on = 2
  /\ member.last_drift_on = 4
  /\ member.last_warning_on = 2
  /\ member.n_drifts_detected = 1
  /\ member.background_learner = <<>>
  /\ Len(member.model.learned) = 2

\* C30: a drift signal in a call that finds no background learner and creates
\* none performs a clone-reset: last_drift_on is the sample count,
\* n_drifts_detected is one more, the tree is a fresh untrained copy of the
\* member's tree, the drift detector is fresh, the metric is pristine and
\* created_on is the sample count; the warning detector is the one that was
\* updated in the call, and index_original and the warning counters are as
\* before.
C30_CloneReset ==
  [][(mlog' # mlog) =>
       LET e == LastCall IN
       (e.drift /\ ~e.warning /\ member.background_learner = <<>>) =>
          /\ member'.last_drift_on = e.n
          /\ member'.n_drifts_detected = member.n_drifts_detected + 1
          /\ member'.model.learned = <<>>
          /\ member'.model.id \notin {member.model.id}
          /\ member'.model.seed = member.model.seed
          /\ member'.model.max_features = member.model.max_features
          /\ member'.drift_detector # <<>>
          /\ member'.drift_detector[1].n_updates = 0
          /\ ~member'.drift_detector[1].change_detected
          /\ member'.drift_detector[1].id # member.drift_detector[1].id
          /\ member'.metric = Metric(member.metric.multiclass)
          /\ member'.created_on = e.n
          /\ member'.background_learner = <<>>
          /\ member'.warning_detector =
               IF member.warning_detector = <<>> THEN <<>>
               ELSE <<[member.warning_detector[1] EXCEPT
                          !.n_updates = @ + 1,
                          !.change_detected = FALSE,
                          !.last = member'.warning_detector[1].last]>>
          /\ member'.index_original = member.index_original
          /\ member'.n_warnings_detected = member.n_warnings_detected
          /\ member'.last_warning_on = member.last_warning_on]_vars

\* A regression member with a warning detector that had learned two examples
\* and seen a promotion was clone-reset in the fourth call.
C30_Witness ==
  /\ Len(mlog) = 4
  /\ mlog[1].k > 0 /\ mlog[1].warning /\ mlog[2].drift /\ mlog[3].k > 0
  /\ mlog[4].drift /\ ~mlog[4].warning /\ ~mlog[3].warning
  /\ member.use_background_learner
  /\ ~member.metric.multiclass
  /\ member.metric.n_updates = 0
  /\ member.model.learned = <<>>
  /\ member.created_on = 4
  /\ member.n_drifts_detected = 2
  /\ member.warning_detector[1].n_updates >= 1


\* C25: every member starts with a metric that has received no update: the
\* foreground member at ensemble initialization and the background learner
\* created on a warning (whose metric no call updates while it is in the
\* background), with a classification and with a regression metric alike.
C25_FreshMetricAtCreation ==
  /\ mlog = <<>> => member.metric = Metric(member.metric.multiclass)
  /\ member.background_learner # <<>> =>
       member.background_learner[1].metric = Metric(member.metric.multiclass)



\* ------------------------------------------ member independence
\* C24: the step of a member reads and writes that member only: a forest whose
\* loop runs over the members in another order, each member being given the
\* same weight, holds after every example the members of the forest whose loop
\* runs in the order of the list.
C24_OrderIndependence ==
  /\ forests[1].models = forests[2].models
  /\ forests[1].n_samples_seen = forests[2].n_samples_seen
  /\ forests[1].next_id = forests[2].next_id

\* After two examples the members of both forests differ from one another: one
\* has handled a drift and learned the second example, the other has skipped
\* the second example.
C24_Witness ==
  /\ Len(tape) = 2
  /\ Len(forests[2].models) = NModels
  /\ \E i \in 1..NModels, j \in 1..NModels :
       /\ i # j
       /\ forests[2].models[i].n_drifts_detected > 0
       /\ forests[2].models[j].n_drifts_detected = 0
       /\ forests[2].models[j].metric.n_updates = 2
       /\ Len(forests[2].models[j].model.learned) = 1


\* ------------------------------------------ detector input properties
\* c + error / (6 * sqrt(sigma)) lies in [0, 1]: with c = 1/2 that is
\* error^2 <= 9 * sigma.
InUnitInterval(v) ==
  /\ 0 <= v.c[1] /\ v.c[1] <= v.c[2]
  /\ v.error # 0 =>
       /\ v.c = <<1, 2>>
       /\ v.error * v.error * v.sigma[2] <= 9 * v.sigma[1]

\* C26: the scalar handed to the detectors lies in [0, 1]: 0 or 1 for a
\* classification member; for a regression member 1/2 on the first error since
\* construction or reset and whenever sigma = 0, (error + 3 sigma) / (6 sigma)
\* otherwise, whatever the errors.
C26_InputInUnitInterval ==
  detector_input # <<>> => InUnitInterval(detector_input[1])


\* ------------------------------------------- observer tree invariants
\* The nodes of the subtree of node i.
SubtreeNodes(ns, i) == {Preorder(ns, i)[j] : j \in 1..Len(Preorder(ns, i))}

SearchTree(ns, rt, os) ==
  /\ \A i \in 1..Len(ns) :
       /\ \A j \in SubtreeNodes(ns, ns[i].left) : ns[j].cut_point < ns[i].cut_point
       /\ \A j \in SubtreeNodes(ns, ns[i].right) : ns[j].cut_point > ns[i].cut_point
  /\ \A i \in 1..Len(ns), j \in 1..Len(ns) : (ns[i].cut_point = ns[j].cut_point) => (i = j)
  /\ SubtreeNodes(ns, rt) = 1..Len(ns)
  /\ {ns[i].cut_point : i \in 1..Len(ns)} = InsertedValues(os)
  /\ Len(ns) = Cardinality(InsertedValues(os))

\* C32: after every operation the observer is a search tree: the cut_points of
\* a node's left subtree are smaller and those of its right subtree greater
\* than the node's, no two nodes share a cut_point, the cut_points are the
\* distinct values inserted (missing values aside) and the nodes as many; and
\* no operation changes the cut_point of a node or removes a node.
C32_SearchTree ==
  [][/\ SearchTree(nodes', root', obs')
     /\ Len(nodes') >= Len(nodes)
     /\ \A i \in 1..Len(nodes) : nodes'[i].cut_point = nodes[i].cut_point
     /\ root # 0 => root' = root]_vars

\* Three values inserted in an order that fills both sides of the root.
C32_Witness ==
  /\ Len(nodes) = 3
  /\ nodes[root].left # 0 /\ nodes[root].right # 0
  /\ nodes[nodes[root].left].cut_point < nodes[root].cut_point
  /\ nodes[nodes[root].right].cut_point > nodes[root].cut_point

\* The weight of label l counted at a node.
NodeTotal(nd, l) == Get(nd.class_count_left, l) + Get(nd.class_count_right, l)

\* The weight of label l inserted with the value v.
WeightAt(os, v, l) == Get(ScanDist(os, v, TRUE), l) - Get(ScanDist(os, v - 1, TRUE), l)

\* C33: for every label, the counts of the root add up to the weight inserted;
\* the counts of a right child add up to the right count of its parent; the
\* counts of a left child add up to the left count of its parent less the
\* weight inserted with the parent's cut_point as value; no count is negative.
C33_CountRelations ==
  \A l \in Labels :
     /\ root # 0 => NodeTotal(nodes[root], l) = Get(TotalDist(obs), l)
     /\ root = 0 => obs = <<>>
     /\ \A p \in 1..Len(nodes) :
          /\ Get(nodes[p].class_count_left, l) >= 0
          /\ Get(nodes[p].class_count_right, l) >= 0
          /\ nodes[p].right # 0 =>
               NodeTotal(nodes[nodes[p].right], l) = Get(nodes[p].class_count_right, l)
          /\ nodes[p].left # 0 =>
               /\ NodeTotal(nodes[nodes[p].left], l) <= Get(nodes[p].class_count_left, l)
               /\ Get(nodes[p].class_count_left, l) - NodeTotal(nodes[nodes[p].left], l)
                    = WeightAt(obs, nodes[p].cut_point, l)

\* A node with a left child whose own value was inserted twice, so that its
\* left child counts less than its left count by the weight of both.
C33_Witness ==
  /\ Len(nodes) = 2
  /\ Len(obs) = 3
  /\ nodes[root].left # 0
  /\ obs[1].value = obs[3].value
  /\ DictSum(nodes[root].class_count_left)
       = DictSum(nodes[nodes[root].left].class_count_left)
         + obs[1].weight + obs[3].weight


\* C34: a query leaves the root and every node (cut_point, both counts with
\* their label keys, children) as they were, and a second query made right
\* after it returns the same split test, distributions and merit after the
\* same criterion calls.
C34_QueryReadOnly ==
  [][(last_op' = "query") =>
       (/\ root' = root
        /\ nodes' = nodes
        /\ \A i \in 1..Len(nodes) :
             /\ DOMAIN nodes'[i].class_count_left = DOMAIN nodes[i].class_count_left
             /\ DOMAIN nodes'[i].class_count_right = DOMAIN nodes[i].class_count_right
        /\ best_evaluated_split_suggestion(nodes', root', TotalDist(obs'))
             = [best |-> suggestion', calls |-> calls'])]_vars

\* A query answered with a split on a tree of three nodes, one of which has
\* no count for one of the labels.
C34_Witness ==
  /\ last_op = "query"
  /\ Len(nodes) = 3
  /\ ~suggestion.split_test.none
  /\ Len(calls) = 3
  /\ \E i \in 1..3 : DOMAIN nodes[i].class_count_right = {}
  /\ \E i \in 1..3 : DOMAIN nodes[i].class_count_left # Labels


\* ------------------------------------------------------ warning step
\* The input both detectors of the member are given in the call that is the
\* last of the log: computed from the example and from the prediction of the
\* member's tree once it has learned the example.
CallInput ==
  LET e == LastCall IN
  <<[y_true |-> e.n,
     y_pred |-> [tree |-> member.model.id, after |-> Len(member.model.learned) + 1]]>>

\* C31: in a learn call of a foreground member with both detectors the
\* warning detector is updated before the drift detector and with the same
\* input. Without a signal both detectors hold that input and one more
\* update. On a warning signal alone last_warning_on is the sample count,
\* n_warnings_detected is one more, the background learner is a new untrained
\* member with the same index_original, is_background_learner set, created_on
\* the sample count and fresh detectors, the member's warning detector is a
\* fresh one, and the tree (which learned the example), the drift detector
\* (which was updated with the input) and the metric (updated by the loop)
\* are what they are without the warning. On a warning and a drift signal in
\* one call the member ends on the tree of the background learner created in
\* that call: the warning was handled first.
C31_WarningStep ==
  [][(mlog' # mlog) =>
       LET e == LastCall IN
       (e.k > 0 /\ member.use_drift_detector /\ member.use_background_learner
          /\ ~member.is_background_learner) =>
         /\ (~e.warning /\ ~e.drift) =>
              /\ member'.warning_detector =
                   <<[member.warning_detector[1] EXCEPT
                        !.n_updates = @ + 1, !.change_detected = FALSE,
                        !.last = CallInput]>>
              /\ member'.drift_detector =
                   <<[member.drift_detector[1] EXCEPT
                        !.n_updates = @ + 1, !.change_detected = FALSE,
                        !.last = CallInput]>>
              /\ member'.warning_detector[1].last = member'.drift_detector[1].last
              /\ member'.last_warning_on = member.last_warning_on
              /\ member'.n_warnings_detected = member.n_warnings_detected
         /\ (e.warning /\ ~e.drift) =>
              /\ member'.last_warning_on = e.n
              /\ member'.n_warnings_detected = member.n_warnings_detected + 1
              /\ member'.background_learner # <<>>
              /\ LET b == member'.background_learner[1] IN
                   /\ b.model = Tree(e.id0 + 1, member.model.seed, member.model.max_features)
                   /\ b.model.learned = <<>>
                   /\ b.index_original = member.index_original
                   /\ b.is_background_learner
                   /\ b.created_on = e.n
                   /\ b.drift_detector = <<Detector(e.id0 + 2)>>
                   /\ b.warning_detector = <<Detector(e.id0 + 3)>>
                   /\ b.background_learner = <<>>
                   /\ b.n_warnings_detected = 0 /\ b.n_drifts_detected = 0
              /\ member'.warning_detector = <<Detector(e.id0 + 4)>>
              /\ member'.model = TreeLearn(member.model, e.n, e.k)
              /\ member'.drift_detector =
                   <<[member.drift_detector[1] EXCEPT
                        !.n_updates = @ + 1, !.change_detected = FALSE,
                        !.last = CallInput]>>
              /\ member'.metric =
                   MetricUpdate(member.metric, e.n, Prediction(member.model))
              /\ member'.created_on = member.created_on
              /\ member'.last_drift_on = member.last_drift_on
              /\ member'.n_drifts_detected = member.n_drifts_detected
              /\ member'.index_original = member.index_original
              /\ ~member'.is_background_learner
         /\ (e.warning /\ e.drift) =>
              /\ member'.model.id = e.id0 + 1
              /\ member'.model.learned = <<>>
              /\ member'.background_learner = <<>>
              /\ member'.last_warning_on = e.n]_vars

\* A member that had learned one example signalled a warning without a drift
\* in the second call: it holds an untrained background learner created on 2,
\* a fresh warning detector and a drift detector updated twice.
C31_Witness ==
  /\ Len(mlog) = 2
  /\ mlog[1].k > 0 /\ ~mlog[1].warning /\ ~mlog[1].drift
  /\ mlog[2].k > 0 /\ mlog[2].warning /\ ~mlog[2].drift
  /\ member.use_drift_detector /\ member.use_background_learner
  /\ member.last_warning_on = 2
  /\ member.n_warnings_detected = 1
  /\ member.background_learner # <<>>
  /\ member.background_learner[1].created_on = 2
  /\ member.background_learner[1].model.learned = <<>>
  /\ member.warning_detector[1].n_updates = 0
  /\ member.drift_detector[1].n_updates = 2
  /\ Len(member.model.learned) = 2


\* ------------------------------------------------- member lifecycle
\* What holds of the member between calls
Lifecycle ==
  /\ member.background_learner # <<>> =>
       /\ member.n_warnings_detected >= 1
       /\ member.background_learner[1].created_on = member.last_warning_on
       /\ member.last_warning_on > member.last_drift_on
  /\ (member.n_drifts_detected = 0) <=> (member.last_drift_on = 0)

\* C35: a foreground member driven by learn calls with sample counts 1, 2, ...
\* holds a background learner only if n_warnings_detected >= 1, the background
\* learner's created_on is last_warning_on and last_warning_on is greater
\* than last_drift_on; a call in which the drift detector signalled ends
\* without a background learner, a warning in the same call included;
\* n_drifts_detected and n_warnings_detected never decrease, and
\* n_drifts_detected is 0 exactly when last_drift_on is 0.
C35_Lifecycle ==
  /\ []Lifecycle
  /\ [][(mlog' # mlog) =>
          /\ LastCall.drift => member'.background_learner = <<>>
          /\ member'.n_drifts_detected >= member.n_drifts_detected
          /\ member'.n_warnings_detected >= member.n_warnings_detected]_vars

\* The member has seen a warning in the first call, a drift in the second, a
\* warning in the third and a warning and a drift in the fourth: a background
\* learner was present after the first and the third call and none is now.
C35_Witness ==
  /\ Len(mlog) = 4
  /\ mlog[1].warning /\ ~mlog[1].drift /\ mlog[1].bg_after
  /\ mlog[2].drift /\ ~mlog[2].warning /\ ~mlog[2].bg_after
  /\ mlog[3].warning /\ ~mlog[3].drift /\ mlog[3].bg_after
  /\ mlog[4].warning /\ mlog[4].drift
  /\ member.background_learner = <<>>
  /\ member.n_warnings_detected = 3
  /\ member.n_drifts_detected = 2
  /\ member.last_warning_on = 4
  /\ member.last_drift_on = 4


\* ------------------------------------------- shadow-training window
\* The call of the most recent warning in a log, 0 if there is none
LastWarning(log) ==
  LET ws == {j \in 1..Len(log) : log[j].warning}
  IN IF ws = {} THEN 0 ELSE CHOOSE j \in ws : \A i \in ws : i <= j

\* What a tree learns from the calls of a log after the call w: the example
\* and the weight of every call that reached the member, in order
Window(log, w) ==
  LET sel == SelectSeq(SubSeq(log, w + 1, Len(log)), LAMBDA c : c.k > 0)
  IN [i \in 1..Len(sel) |-> [xy |-> sel[i].n, sample_weight |-> sel[i].k]]

\* C36: the tree a promotion installs has learned exactly the examples of the
\* member's learn calls after the call of the most recent warning up to the
\* call of the drift, each once, in order and with the weight the foreground
\* tree was given, and neither the example of the warning call nor an earlier
\* one; the same holds of the background learner's tree after every call. The
\* detectors are updated once the trees have learned: their input holds the
\* prediction of the foreground tree that has learned the example, and the
\* background learner a warning installs has not learned the example.
C36_ShadowWindow ==
  [][(mlog' # mlog) =>
       LET e == LastCall
           w == LastWarning(mlog')
       IN
       /\ member'.background_learner # <<>> =>
            member'.background_learner[1].model.learned = Window(mlog', w)
       /\ (e.drift /\ (e.warning \/ member.background_learner # <<>>)) =>
            /\ w >= 1
            /\ member'.model.learned = Window(mlog', w)
            /\ \A i \in 1..Len(member'.model.learned) :
                 member'.model.learned[i].xy > mlog'[w].n
            /\ member'.model.id =
                 IF e.warning THEN e.id0 + 1 ELSE e.bg_model_before
       /\ (e.k > 0 /\ ~e.drift /\ ~e.warning /\ member.background_learner # <<>>) =>
            LET fg == member'.model.learned
                bg == member'.background_learner[1].model.learned
            IN /\ fg # <<>> /\ bg # <<>>
               /\ fg[Len(fg)] = bg[Len(bg)]
               /\ fg[Len(fg)] = [xy |-> e.n, sample_weight |-> e.k]
       /\ (e.k > 0 /\ ~e.drift /\ member.use_drift_detector) =>
            member'.drift_detector[1].last =
              <<[y_true |-> e.n,
                 y_pred |-> [tree |-> member.model.id,
                             after |-> Len(member.model.learned) + 1]]>>]_vars

\* A warning in the first call, the second call with the weight MaxWeight,
\* the third skipped by the member and a drift in the fourth with weight 1:
\* the promoted tree has learned the second and the fourth example.
C36_Witness ==
  /\ Len(mlog) = 4
  /\ mlog[1].warning /\ ~mlog[1].drift
  /\ mlog[2].k = MaxWeight /\ ~mlog[2].warning /\ ~mlog[2].drift
  /\ mlog[3].k = 0
  /\ mlog[4].k = 1 /\ mlog[4].drift /\ ~mlog[4].warning
  /\ member.background_learner = <<>>
  /\ member.model.id = mlog[1].id0 + 1
  /\ member.model.learned = <<[xy |-> 2, sample_weight |-> MaxWeight],
                              [xy |-> 4, sample_weight |-> 1]>>


\* ------------------------------------------------- repeated warning
\* C37: a warning signal in a call that finds a background learner, without a
\* drift signal in that call, replaces the background learner by a new one:
\* its tree is another, untrained tree, its created_on is the sample count,
\* its detectors and counters are fresh, and nothing the previous background
\* learner's tree had learned is in it; the member holds at most one
\* background learner, which holds none itself.
C37_RepeatedWarning ==
  [][(mlog' # mlog) =>
       LET e == LastCall IN
       /\ Len(member'.background_learner) <= 1
       /\ member'.background_learner # <<>> =>
            member'.background_learner[1].background_learner = <<>>
       /\ (e.warning /\ ~e.drift /\ member.background_learner # <<>>) =>
            /\ member'.background_learner # <<>>
            /\ LET old == member.background_learner[1]
                   b == member'.background_learner[1]
               IN /\ b.model.id = e.id0 + 1
                  /\ b.model.id # old.model.id
                  /\ b.model.learned = <<>>
                  /\ b.created_on = e.n
                  /\ b.created_on > old.created_on
                  /\ b.drift_detector = <<Detector(e.id0 + 2)>>
                  /\ b.warning_detector = <<Detector(e.id0 + 3)>>
                  /\ b.n_warnings_detected = 0 /\ b.n_drifts_detected = 0
                  /\ b.last_warning_on = 0 /\ b.last_drift_on = 0
                  /\ b.is_background_learner
            /\ member'.last_warning_on = e.n
            /\ member'.n_warnings_detected = member.n_warnings_detected + 1]_vars

\* A warning in the first call, an example learned by both trees in the
\* second, a warning in the third: the background learner present is the one
\* created in the third call and has learned nothing, while the member has
\* counted two warnings.
C37_Witness ==
  /\ Len(mlog) = 3
  /\ mlog[1].warning /\ ~mlog[1].drift
  /\ mlog[2].k > 0 /\ ~mlog[2].warning /\ ~mlog[2].drift /\ mlog[2].bg_after
  /\ mlog[3].warning /\ ~mlog[3].drift
  /\ mlog[3].bg_model_before = mlog[1].id0 + 1
  /\ member.background_learner # <<>>
  /\ member.background_learner[1].model.id = mlog[3].id0 + 1
  /\ member.background_learner[1].model.learned = <<>>
  /\ member.background_learner[1].created_on = 3
  /\ member.n_warnings_detected = 2

====
